---- MODULE Spec2Model ----
(***************************************************************************)
(* Selector synthesis and cross-validation engine of eyra-scraper          *)
(* (src/utils/agentql.py).                                                 *)
(*                                                                         *)
(* Text is a sequence of one-character strings.  A number (a Python float) *)
(* is an integer count of thousandths: every number of the model has at    *)
(* most three decimals, so 19.99 is 19990.  An Optional value is <<>> for  *)
(* None and <<v>> for a value v.  The non-ASCII currency signs are the     *)
(* one-character strings "EURO", "POUND", "YEN" and "RUPEE".              *)
(*                                                                         *)
(* The browser services around the engine (src/utils/browser.py,           *)
(* src/services.py) are modelled in the variables wait and session; their  *)
(* times are in tenths of a second.  The variable response is the answer   *)
(* of an HTTP endpoint (src/main.py).                                      *)
(***************************************************************************)
EXTENDS Integers, Sequences, FiniteSets, TLC

VARIABLES pc, doc, src, selectors, result, baseline, change, num_in, num_out, node, path, resolved,
          wait, session, response

vars == <<pc, doc, src, selectors, result, baseline, change, num_in, num_out, node, path, resolved,
          wait, session, response>>

None == <<>>

Some(v) == <<v>>

----------------------------------------------------------------------------
(* Python str primitives *)

LowerAlpha == <<"a","b","c","d","e","f","g","h","i","j","k","l","m",
                "n","o","p","q","r","s","t","u","v","w","x","y","z">>

UpperAlpha == <<"A","B","C","D","E","F","G","H","I","J","K","L","M",
                "N","O","P","Q","R","S","T","U","V","W","X","Y","Z">>

DigitChars == <<"0","1","2","3","4","5","6","7","8","9">>

IsDigit(c) == \E i \in 1..10 : DigitChars[i] = c

DigitVal(c) == (CHOOSE i \in 1..10 : DigitChars[i] = c) - 1

IsSpace(c) == c \in {" ", "\n", "\t"}

IsAlpha(c) == \E i \in 1..26 : LowerAlpha[i] = c \/ UpperAlpha[i] = c

\* \w of the re module: letters, digits and the underscore
IsWordChar(c) == IsAlpha(c) \/ IsDigit(c) \/ c = "_"

LowerChar(c) ==
    IF \E i \in 1..26 : UpperAlpha[i] = c
    THEN LowerAlpha[CHOOSE i \in 1..26 : UpperAlpha[i] = c]
    ELSE c

UpperChar(c) ==
    IF \E i \in 1..26 : LowerAlpha[i] = c
    THEN UpperAlpha[CHOOSE i \in 1..26 : LowerAlpha[i] = c]
    ELSE c

MapChars(s, up) == [i \in 1..Len(s) |-> IF up THEN UpperChar(s[i]) ELSE LowerChar(s[i])]

lower(s) == MapChars(s, FALSE)

upper(s) == MapChars(s, TRUE)

\* needle in hay
Contains(hay, needle) ==
    \E i \in 0..(Len(hay) - Len(needle)) : SubSeq(hay, i + 1, i + Len(needle)) = needle

\* hay.find(needle) + 1, or 0
FindFirst(hay, needle) ==
    IF Contains(hay, needle)
    THEN 1 + CHOOSE i \in 0..(Len(hay) - Len(needle)) :
               /\ SubSeq(hay, i + 1, i + Len(needle)) = needle
               /\ \A j \in 0..(i - 1) : SubSeq(hay, j + 1, j + Len(needle)) # needle
    ELSE 0

\* the positions where a maximal run of non-whitespace characters starts, and where one ends
WordStarts(s) ==
    SelectSeq([i \in 1..Len(s) |-> i], LAMBDA i : ~IsSpace(s[i]) /\ (i = 1 \/ IsSpace(s[i - 1])))

WordEnds(s) ==
    SelectSeq([i \in 1..Len(s) |-> i], LAMBDA i : ~IsSpace(s[i]) /\ (i = Len(s) \/ IsSpace(s[i + 1])))

\* s.split(): the maximal runs of non-whitespace characters
split(s) == [k \in 1..Len(WordStarts(s)) |-> SubSeq(s, WordStarts(s)[k], WordEnds(s)[k])]

RECURSIVE join(_, _)
join(sep, parts) ==
    IF parts = <<>> THEN <<>>
    ELSE IF Len(parts) = 1 THEN parts[1]
    ELSE parts[1] \o sep \o join(sep, Tail(parts))

RECURSIVE StripLeft(_)
StripLeft(s) == IF s # <<>> /\ IsSpace(Head(s)) THEN StripLeft(Tail(s)) ELSE s

RECURSIVE StripRight(_)
StripRight(s) ==
    IF s # <<>> /\ IsSpace(s[Len(s)]) THEN StripRight(SubSeq(s, 1, Len(s) - 1)) ELSE s

\* s.strip()
strip(s) == StripRight(StripLeft(s))

_normalize_text(text) == IF text = <<>> THEN <<>> ELSE join(<<" ">>, split(text))

----------------------------------------------------------------------------
(* Python float primitives, in thousandths *)

RECURSIVE IntOf(_)
IntOf(ds) == IF ds = <<>> THEN 0 ELSE 10 * IntOf(SubSeq(ds, 1, Len(ds) - 1)) + DigitVal(ds[Len(ds)])

AllDigits(s) == \A i \in 1..Len(s) : IsDigit(s[i])

\* the first three decimals of a run of decimal digits, as thousandths
FracOf(ds) == IntOf(SubSeq(ds \o <<"0","0","0">>, 1, 3))

\* float(s) for a text of digits and periods: None stands for ValueError
ParseFloat(s) ==
    LET dot == FindFirst(s, <<".">>)
        ip  == IF dot = 0 THEN s ELSE SubSeq(s, 1, dot - 1)
        fp  == IF dot = 0 THEN <<>> ELSE SubSeq(s, dot + 1, Len(s))
    IN  IF AllDigits(ip) /\ AllDigits(fp) /\ Len(ip) + Len(fp) > 0
        THEN Some(1000 * IntOf(ip) + FracOf(fp))
        ELSE None

\* float('inf'): what json gives for 1e999 and float() for a text of some 310 digits;
\* a number above every finite number of the model
Infinity == 2000000000

\* int(v) at line 207 raises OverflowError for an infinite v
int_raises(v) == v = Infinity

RECURSIVE DigitsOf(_)
DigitsOf(n) == IF n < 10 THEN <<DigitChars[n + 1]>> ELSE Append(DigitsOf(n \div 10), DigitChars[(n % 10) + 1])

RECURSIVE RStripChar(_, _)
RStripChar(s, c) == IF s # <<>> /\ s[Len(s)] = c THEN RStripChar(SubSeq(s, 1, Len(s) - 1), c) ELSE s

\* the three decimals of v, zero-padded
Decimals3(v) == SubSeq(DigitsOf(1000 + (v % 1000)), 2, 4)

\* str(v) of a float v: the shortest decimal form, with at least one decimal
FloatStr(v) ==
    LET fr == RStripChar(Decimals3(v), "0")
    IN  DigitsOf(v \div 1000) \o <<".">> \o (IF fr = <<>> THEN <<"0">> ELSE fr)

\* str(int(v))
IntStr(v) == DigitsOf(v \div 1000)

\* f"{v:.2f}": v rounded to hundredths (exact for the whole-cent values of the model)
Format2f(v) ==
    LET c == (v + 5) \div 10
    IN  DigitsOf(c \div 100) \o <<".">> \o SubSeq(DigitsOf(100 + (c % 100)), 2, 3)

----------------------------------------------------------------------------
(* The parsed document (parsel.Selector over an lxml tree).  A document is  *)
(* the sequence of its elements in document order; element 1 is <html>;    *)
(* text is the text before the first child, tail the text after the        *)
(* element's end tag.                                                      *)

Elem(tag, cls, id, parent, text, tail) ==
    [tag |-> tag, class |-> cls, id |-> id, parent |-> parent, text |-> text, tail |-> tail]

Ids(d) == [i \in 1..Len(d) |-> i]

Children(d, n) == SelectSeq(Ids(d), LAMBDA k : d[k].parent = n)

Attr(name, v) == IF v = <<>> THEN <<>> ELSE <<" ">> \o name \o <<"=", "\"">> \o v \o <<"\"">>

OpenTag(e) ==
    <<"<">> \o e.tag \o Attr(<<"c","l","a","s","s">>, e.class) \o Attr(<<"i","d">>, e.id) \o <<">">>

CloseTag(e) == <<"<", "/">> \o e.tag \o <<">">>

RECURSIVE OuterHtml(_, _)
RECURSIVE InnerHtml(_, _)
\* Selector.get(): the element serialized with its markup, without its tail
OuterHtml(d, n) == OpenTag(d[n]) \o d[n].text \o InnerHtml(d, Children(d, n)) \o CloseTag(d[n])

InnerHtml(d, kids) ==
    IF kids = <<>> THEN <<>>
    ELSE OuterHtml(d, Head(kids)) \o d[Head(kids)].tail \o InnerHtml(d, Tail(kids))

\* SelectorList.get(): the first element's serialization, None when empty
GetFirst(d, nodes) == IF nodes = <<>> THEN <<>> ELSE OuterHtml(d, nodes[1])

RECURSIVE TailsOf(_, _)
TailsOf(d, kids) ==
    IF kids = <<>> THEN <<>>
    ELSE (IF d[Head(kids)].tail = <<>> THEN <<>> ELSE <<d[Head(kids)].tail>>) \o TailsOf(d, Tail(kids))

\* text(): the text-node children of an element
TextNodes(d, n) == (IF d[n].text = <<>> THEN <<>> ELSE <<d[n].text>>) \o TailsOf(d, Children(d, n))

\* the string value of text() in an XPath 1.0 function call: the first text node
FirstText(d, n) == IF TextNodes(d, n) = <<>> THEN <<>> ELSE TextNodes(d, n)[1]

RECURSIVE DescTexts(_, _)
RECURSIVE DescTextsOfKids(_, _)
\* .//text(): the descendant text nodes in document order
DescTexts(d, n) == (IF d[n].text = <<>> THEN <<>> ELSE <<d[n].text>>) \o DescTextsOfKids(d, Children(d, n))

DescTextsOfKids(d, kids) ==
    IF kids = <<>> THEN <<>>
    ELSE DescTexts(d, Head(kids))
         \o (IF d[Head(kids)].tail = <<>> THEN <<>> ELSE <<d[Head(kids)].tail>>)
         \o DescTextsOfKids(d, Tail(kids))

RECURSIVE DescTextsAll(_, _)
DescTextsAll(d, nodes) ==
    IF nodes = <<>> THEN <<>> ELSE DescTexts(d, Head(nodes)) \o DescTextsAll(d, Tail(nodes))

\* //*[p]: the elements satisfying p, in document order
SelectAll(d, p(_)) == SelectSeq(Ids(d), p)

\* selector.css(tag)
css(d, tag) == SelectAll(d, LAMBDA k : d[k].tag = tag)

SameTag(d, n) == SelectSeq(Children(d, d[n].parent), LAMBDA k : d[k].tag = d[n].tag)

PosIn(s, x) == CHOOSE i \in 1..Len(s) : s[i] = x

\* one location step of getpath: the tag, indexed among the same-tag siblings when there are several
StepAllSiblings(d, n) ==
    [tag |-> d[n].tag,
     idx |-> IF Len(Children(d, d[n].parent)) > 1 THEN PosIn(Children(d, d[n].parent), n) ELSE 0]

StepOf(d, n) ==
    [tag |-> d[n].tag, idx |-> IF Len(SameTag(d, n)) > 1 THEN PosIn(SameTag(d, n), n) ELSE 0]

RECURSIVE getpath(_, _)
\* etree.ElementTree(root).getpath(elem)
getpath(d, n) == IF n = 0 THEN <<>> ELSE Append(getpath(d, d[n].parent), StepOf(d, n))

\* an XPath expression: a location path, or text that is no XPath at all
XPath(steps) == [valid |-> TRUE, steps |-> steps]

InvalidXPath == [valid |-> FALSE, steps |-> <<>>]

StepNodes(d, ctx, st) ==
    LET kids == SelectSeq(Children(d, ctx), LAMBDA k : d[k].tag = st.tag)
    IN  IF st.idx = 0 THEN kids
        ELSE IF st.idx <= Len(kids) THEN <<kids[st.idx]>> ELSE <<>>

RECURSIVE StepAll(_, _, _)
StepAll(d, ctxs, st) ==
    IF ctxs = <<>> THEN <<>> ELSE StepNodes(d, Head(ctxs), st) \o StepAll(d, Tail(ctxs), st)

RECURSIVE EvalSteps(_, _, _)
EvalSteps(d, ctxs, steps) ==
    IF steps = <<>> THEN ctxs ELSE EvalSteps(d, StepAll(d, ctxs, Head(steps)), Tail(steps))

\* selector.xpath(expr) for a stored expression: the SelectorList, or a raised ValueError
xpath(d, xp) ==
    IF xp.valid THEN [raised |-> FALSE, nodes |-> EvalSteps(d, <<0>>, xp.steps)]
    ELSE [raised |-> TRUE, nodes |-> <<>>]

\* a parsel Selector (one element, with .root) or SelectorList (a list, without .root)
AsSelector(n) == [list |-> FALSE, nodes |-> <<n>>]

AsSelectorList(ns) == [list |-> TRUE, nodes |-> ns]

_get_xpath_from_element(d, element) ==
    IF element.list THEN None
    ELSE Some(XPath(getpath(d, element.nodes[1])))

----------------------------------------------------------------------------
(* Numeric Coercer *)

\* a price as the extraction service gives it: absent, a number, or text
NoPrice == [kind |-> "none", num |-> 0, text |-> <<>>]

NumPrice(v) == [kind |-> "num", num |-> v, text |-> <<>>]

TextPrice(t) == [kind |-> "text", num |-> 0, text |-> t]

\* str(x) of a value that is no number
StrOf(p) == IF p.kind = "text" THEN p.text ELSE <<"N","o","n","e">>

\* re.sub(r'[^\d.,]', '', s)
KeepNumeric(s) == SelectSeq(s, LAMBDA c : IsDigit(c) \/ c = "." \/ c = ",")

\* s.replace(a, b) for single characters
ReplaceChar(s, a, b) == [i \in 1..Len(s) |-> IF s[i] = a THEN b ELSE s[i]]

RECURSIVE SplitOnFrom(_, _, _, _, _)
SplitOnFrom(s, c, i, cur, acc) ==
    IF i > Len(s) THEN Append(acc, cur)
    ELSE IF s[i] = c THEN SplitOnFrom(s, c, i + 1, <<>>, Append(acc, cur))
    ELSE SplitOnFrom(s, c, i + 1, Append(cur, s[i]), acc)

\* s.split(c)
SplitOn(s, c) == SplitOnFrom(s, c, 1, <<>>, <<>>)

\* lines 129-135: the text that float() is given
price_clean_first_sep(text) ==
    LET c0    == ReplaceChar(KeepNumeric(text), ",", ".")
        parts == SplitOn(c0, ".")
    IN  IF Len(parts) > 2
        THEN parts[1] \o <<".">> \o join(<<>>, Tail(parts))
        ELSE c0

price_clean(text) ==
    LET c0    == ReplaceChar(KeepNumeric(text), ",", ".")
        parts == SplitOn(c0, ".")
    IN  IF Len(parts) > 2
        THEN join(<<>>, SubSeq(parts, 1, Len(parts) - 1)) \o <<".">> \o parts[Len(parts)]
        ELSE c0

_extract_numeric_value(price_str) ==
    IF price_str.kind = "num" THEN price_str.num
    ELSE LET f == ParseFloat(price_clean(StrOf(price_str)))
         IN  IF f = None THEN 0 ELSE f[1]

----------------------------------------------------------------------------
(* Regular expressions of the engine, over normalized text *)

\* the one-character currency signs: dollar, euro, pound, yen, rupee
Glyphs == {"$", "EURO", "POUND", "YEN", "RUPEE"}

Codes == {<<"U","S","D">>, <<"E","U","R">>, <<"G","B","P">>, <<"J","P","Y">>, <<"I","N","R">>}

\* the end of the maximal run of digits that starts at i (i - 1 when there is none)
RECURSIVE DigitsEnd(_, _)
DigitsEnd(s, i) == IF i <= Len(s) /\ IsDigit(s[i]) THEN DigitsEnd(s, i + 1) ELSE i - 1

RECURSIVE SpacesEnd(_, _)
SpacesEnd(s, i) == IF i <= Len(s) /\ IsSpace(s[i]) THEN SpacesEnd(s, i + 1) ELSE i - 1

\* the end of a match of \d+\.?\d* that starts at the digit s[i]
NumberEnd(s, i) ==
    LET j == DigitsEnd(s, i)
    IN  IF j + 1 <= Len(s) /\ s[j + 1] = "." THEN DigitsEnd(s, j + 2) ELSE j

\* \b after the word character s[j]
BoundaryAfter(s, j) == j = Len(s) \/ ~IsWordChar(s[j + 1])

\* the least position satisfying p, or 0
FirstPos(s, p(_)) == IF \E i \in 1..Len(s) : p(i) THEN CHOOSE i \in 1..Len(s) : p(i) /\ \A j \in 1..(i - 1) : ~p(j) ELSE 0

\* the greatest position satisfying p, or 0
LastPos(s, p(_)) == IF \E i \in 1..Len(s) : p(i) THEN CHOOSE i \in 1..Len(s) : p(i) /\ \A j \in (i + 1)..Len(s) : ~p(j) ELSE 0

\* r'([$EURO POUND YEN RUPEE])\s*(\d+\.?\d*)': whether a match starts at i
GlyphNumberAt(s, i) ==
    /\ s[i] \in Glyphs
    /\ SpacesEnd(s, i + 1) + 1 <= Len(s)
    /\ IsDigit(s[SpacesEnd(s, i + 1) + 1])

\* group 2 of the last match, or None: what re.findall(...)[-1] would take
LastGlyphNumber(s) ==
    LET i == LastPos(s, LAMBDA k : GlyphNumberAt(s, k))
        b == SpacesEnd(s, i + 1) + 1
    IN  IF i = 0 THEN None ELSE Some(SubSeq(s, b, NumberEnd(s, b)))

\* group 2 of the first match, or None
FirstGlyphNumber(s) ==
    LET i == FirstPos(s, LAMBDA k : GlyphNumberAt(s, k))
        b == SpacesEnd(s, i + 1) + 1
    IN  IF i = 0 THEN None ELSE Some(SubSeq(s, b, NumberEnd(s, b)))

\* the number of digits (1 or 2) that \d{1,2}\b matches at i, or 0
Frac12(s, i) ==
    LET e == DigitsEnd(s, i)
    IN  IF e - i + 1 \in {1, 2} /\ BoundaryAfter(s, e) THEN e - i + 1 ELSE 0

\* r'(\d+<sep>\d{1,2})\b': whether a match starts at i
DecimalAt(s, sep, i) ==
    /\ IsDigit(s[i])
    /\ DigitsEnd(s, i) + 1 <= Len(s)
    /\ s[DigitsEnd(s, i) + 1] = sep
    /\ Frac12(s, DigitsEnd(s, i) + 2) > 0

\* the first match, or None
FirstDecimal(s, sep) ==
    LET i == FirstPos(s, LAMBDA k : DecimalAt(s, sep, k))
        j == DigitsEnd(s, i)
    IN  IF i = 0 THEN None ELSE Some(SubSeq(s, i, j + 1 + Frac12(s, j + 2)))

RECURSIVE AllNumbersFrom(_, _)
AllNumbersFrom(s, i) ==
    IF i > Len(s) THEN <<>>
    ELSE IF IsDigit(s[i])
         THEN <<SubSeq(s, i, NumberEnd(s, i))>> \o AllNumbersFrom(s, NumberEnd(s, i) + 1)
         ELSE AllNumbersFrom(s, i + 1)

\* re.findall(r'\d+\.?\d*', s)
AllNumbers(s) == AllNumbersFrom(s, 1)

CodeAt(s, i, codes, fold) ==
    /\ i + 2 <= Len(s)
    /\ (IF fold THEN upper(SubSeq(s, i, i + 2)) ELSE SubSeq(s, i, i + 2)) \in codes

\* re.search(r'[$ EURO POUND YEN RUPEE]|USD|EUR|GBP', s)
HasCurrencyMark(s) ==
    \E i \in 1..Len(s) : s[i] \in Glyphs \/ CodeAt(s, i, Codes \ {<<"J","P","Y">>, <<"I","N","R">>}, FALSE)

\* group 1 of the last match of the currency regex, or None
LastCurrencyToken(s) ==
    LET i == LastPos(s, LAMBDA k : s[k] \in Glyphs \/ CodeAt(s, k, Codes, TRUE))
    IN  IF i = 0 THEN None
        ELSE IF s[i] \in Glyphs THEN Some(<<s[i]>>) ELSE Some(SubSeq(s, i, i + 2))

\* re.search(r'([$ EURO POUND YEN RUPEE]|USD|EUR|GBP|JPY|INR)', s, re.IGNORECASE): group 1, or None
CurrencyToken(s) ==
    LET i == FirstPos(s, LAMBDA k : s[k] \in Glyphs \/ CodeAt(s, k, Codes, TRUE))
    IN  IF i = 0 THEN None
        ELSE IF s[i] \in Glyphs THEN Some(<<s[i]>>) ELSE Some(SubSeq(s, i, i + 2))

----------------------------------------------------------------------------
(* Field Locators *)

SeqSet(s) == {s[i] : i \in 1..Len(s)}

\* contains(@class, w1) or contains(@class, w2) ...
AttrHas(v, words) == \E w \in words : Contains(v, w)

\* //*[contains(@class, ...)] followed by //*[contains(@id, ...)]
ByClassThenId(d, words) ==
    SelectAll(d, LAMBDA k : AttrHas(d[k].class, words)) \o SelectAll(d, LAMBDA k : AttrHas(d[k].id, words))

\* //*[contains(text(), 'needle')], or with translate(text(), 'A..Z', 'a..z') when fold;
\* a needle holding a quote makes the expression invalid and the call raise
ByText(d, needle, fold) ==
    IF Contains(needle, <<"'">>) THEN [raised |-> TRUE, nodes |-> <<>>]
    ELSE [raised |-> FALSE,
          nodes  |-> SelectAll(d, LAMBDA k :
                        Contains(IF fold THEN lower(FirstText(d, k)) ELSE FirstText(d, k), needle))]

\* the path of the first of the Selectors elems for which one is obtained
FirstPath(d, elems) ==
    LET ok == SelectSeq(elems, LAMBDA k : _get_xpath_from_element(d, AsSelector(k)) # None)
    IN  IF ok = <<>> THEN None ELSE _get_xpath_from_element(d, AsSelector(ok[1]))

\* the first alternative that is not None
OrElse(a, b) == IF a # None THEN a ELSE b

TitleAttrWords == {<<"p","r","o","d","u","c","t">>, <<"t","i","t","l","e">>, <<"n","a","m","e">>}

SignificantWords(s) == SelectSeq(split(s), LAMBDA w : Len(w) > 2)

\* the headings as one query "h1, h2, h3, h4" would give them: in document order
headings_document_order(d) ==
    SelectAll(d, LAMBDA k : d[k].tag \in {<<"h","1">>, <<"h","2">>, <<"h","3">>, <<"h","4">>})

\* the elements of the loops of lines 155-156, in the order in which they are tried
Headings(d) == css(d, <<"h","1">>) \o css(d, <<"h","2">>) \o css(d, <<"h","3">>) \o css(d, <<"h","4">>)

TitleTextHit(d, k, tn) ==
    LET text == lower(_normalize_text(OuterHtml(d, k)))
    IN  Contains(text, tn) \/ Contains(tn, text)

HeadingHit(d, k, tn, title_words) ==
    \/ TitleTextHit(d, k, tn)
    \/ /\ Len(title_words) >= 3
       /\ Cardinality(SeqSet(title_words)
                      \cap SeqSet(SignificantWords(lower(_normalize_text(OuterHtml(d, k)))))) >= 3

TitleTier1(d, tn, title_words) ==
    FirstPath(d, SelectSeq(Headings(d), LAMBDA k : HeadingHit(d, k, tn, title_words)))

TitleTier2(d, tn) ==
    FirstPath(d, SelectSeq(ByClassThenId(d, TitleAttrWords), LAMBDA k : TitleTextHit(d, k, tn)))

TitleTier3(d, tn) ==
    LET m == ByText(d, SubSeq(tn, 1, IF Len(tn) < 30 THEN Len(tn) ELSE 30), TRUE)
    IN  IF m.raised \/ m.nodes = <<>> THEN None
        ELSE _get_xpath_from_element(d, AsSelector(m.nodes[1]))

\* the locator without the test of lines 151-152
find_title_selector_any_words(d, title) ==
    LET tn == _normalize_text(lower(title))
    IN  IF title = <<>> THEN None
        ELSE OrElse(TitleTier1(d, tn, SignificantWords(tn)), OrElse(TitleTier2(d, tn), TitleTier3(d, tn)))

_find_title_selector(d, title) ==
    LET tn == _normalize_text(lower(title))
        title_words == SignificantWords(tn)
    IN  IF title = <<>> THEN None
        ELSE IF title_words = <<>> THEN None
        ELSE OrElse(TitleTier1(d, tn, title_words), OrElse(TitleTier2(d, tn), TitleTier3(d, tn)))

PriceAttrWords == {<<"p","r","i","c","e">>, <<"c","o","s","t">>, <<"a","m","o","u","n","t">>}

price_repr_str(v) == FloatStr(v)

price_repr_int(v) == IntStr(v)

price_repr_formatted(v) == RStripChar(RStripChar(Format2f(v), "0"), ".")

PriceTier1(d, v) ==
    FirstPath(d, SelectSeq(ByClassThenId(d, PriceAttrWords), LAMBDA k :
        LET text == _normalize_text(OuterHtml(d, k))
        IN  \/ Contains(text, price_repr_str(v))
            \/ Contains(text, price_repr_formatted(v))
            \/ Contains(text, price_repr_int(v))))

\* one round of the loop of strategy 2, for the representation price_val
PriceByText(d, price_val) ==
    LET m == ByText(d, price_val, FALSE)
    IN  IF m.raised \/ m.nodes = <<>> THEN None
        ELSE OrElse(FirstPath(d, SelectSeq(m.nodes, LAMBDA k : HasCurrencyMark(_normalize_text(OuterHtml(d, k))))),
                    _get_xpath_from_element(d, AsSelector(m.nodes[1])))

\* the loop of strategy 2 with the integer representation tried before the trimmed one
price_tier2_int_first(d, v) ==
    OrElse(PriceByText(d, price_repr_str(v)),
           OrElse(PriceByText(d, price_repr_int(v)), PriceByText(d, price_repr_formatted(v))))

PriceTier2(d, v) ==
    OrElse(PriceByText(d, price_repr_str(v)),
           OrElse(PriceByText(d, price_repr_formatted(v)), PriceByText(d, price_repr_int(v))))

find_price_selector_no_guard(d, price) ==
    IF price.kind = "none" THEN None
    ELSE OrElse(PriceTier1(d, _extract_numeric_value(price)), PriceTier2(d, _extract_numeric_value(price)))

_find_price_selector(d, price) ==
    IF price.kind = "none" THEN None
    ELSE IF _extract_numeric_value(price) = 0 THEN None
    ELSE OrElse(PriceTier1(d, _extract_numeric_value(price)), PriceTier2(d, _extract_numeric_value(price)))

\* the dict currency_symbols, in its order
currency_symbols ==
    << [key |-> <<"U","S","D">>, values |-> << <<"$">>, <<"u","s","d">>, <<"d","o","l","l","a","r">> >>],
       [key |-> <<"E","U","R">>, values |-> << <<"EURO">>, <<"e","u","r">>, <<"e","u","r","o">> >>],
       [key |-> <<"G","B","P">>, values |-> << <<"POUND">>, <<"g","b","p">>, <<"p","o","u","n","d">> >>],
       [key |-> <<"J","P","Y">>, values |-> << <<"YEN">>, <<"j","p","y">>, <<"y","e","n">> >>],
       [key |-> <<"I","N","R">>, values |-> << <<"RUPEE">>, <<"i","n","r">>, <<"r","u","p","e","e">> >>] >>

search_terms(currency_clean) ==
    LET known == SelectSeq(currency_symbols, LAMBDA e :
                     currency_clean = e.key \/ currency_clean \in SeqSet(e.values))
    IN  <<currency_clean>> \o (IF known = <<>> THEN <<>> ELSE known[1].values)

\* any(term.upper() in text for term in search_terms)
TermHit(text, terms) == \E i \in 1..Len(terms) : Contains(text, upper(terms[i]))

\* price_elem.xpath('..')
ParentsOf(d, nodes) == SelectAll(d, LAMBDA k : \E i \in 1..Len(nodes) : d[nodes[i]].parent = k)

PrevSibling(d, n) ==
    LET before == SelectSeq(Children(d, d[n].parent), LAMBDA k : k < n)
    IN  IF before = <<>> THEN 0 ELSE before[Len(before)]

NextSibling(d, n) ==
    LET after == SelectSeq(Children(d, d[n].parent), LAMBDA k : k > n)
    IN  IF after = <<>> THEN 0 ELSE after[1]

\* selector.xpath(price_xpath + "/preceding-sibling::*[1]")
PrecedingSiblings(d, nodes) == SelectAll(d, LAMBDA k : \E i \in 1..Len(nodes) : PrevSibling(d, nodes[i]) = k)

\* selector.xpath(price_xpath + "/following-sibling::*[1]")
FollowingSiblings(d, nodes) == SelectAll(d, LAMBDA k : \E i \in 1..Len(nodes) : NextSibling(d, nodes[i]) = k)

\* lines 279-284 and 290-295: a neighbour of the price element, held as a SelectorList
NearbyPath(d, near, terms) ==
    IF near # <<>> /\ TermHit(upper(_normalize_text(GetFirst(d, near))), terms)
    THEN _get_xpath_from_element(d, AsSelectorList(near))
    ELSE None

CurrencyTier1(d, terms, price_xpath) ==
    IF price_xpath = None THEN None
    ELSE LET price_elem == xpath(d, price_xpath[1])
         IN  IF price_elem.raised \/ price_elem.nodes = <<>> THEN None
             ELSE IF TermHit(upper(_normalize_text(GetFirst(d, price_elem.nodes))), terms)
                  THEN price_xpath
             ELSE OrElse(NearbyPath(d, ParentsOf(d, price_elem.nodes), terms),
                         OrElse(NearbyPath(d, PrecedingSiblings(d, price_elem.nodes), terms),
                                NearbyPath(d, FollowingSiblings(d, price_elem.nodes), terms)))

CurrencyAttrWords == {<<"p","r","i","c","e">>, <<"c","u","r","r","e","n","c","y">>}

CurrencyTier2(d, terms) ==
    FirstPath(d, SelectSeq(ByClassThenId(d, CurrencyAttrWords), LAMBDA k :
        TermHit(upper(_normalize_text(OuterHtml(d, k))), terms)))

\* one round of the loop of strategy 3, for one term
CurrencyByText(d, term) ==
    LET m == IF Len(term) = 1 THEN ByText(d, term, FALSE) ELSE ByText(d, lower(term), TRUE)
    IN  IF m.raised \/ m.nodes = <<>> THEN None
        ELSE _get_xpath_from_element(d, AsSelector(m.nodes[1]))

RECURSIVE CurrencyTier3(_, _)
CurrencyTier3(d, terms) ==
    IF terms = <<>> THEN None
    ELSE OrElse(CurrencyByText(d, Head(terms)), CurrencyTier3(d, Tail(terms)))

_find_currency_selector(d, currency, price_xpath) ==
    LET terms == search_terms(upper(strip(currency)))
    IN  IF currency = <<>> THEN None
        ELSE OrElse(CurrencyTier1(d, terms, price_xpath),
                    OrElse(CurrencyTier2(d, terms), CurrencyTier3(d, terms)))

\* lines 541-555: the body of the try; _find_price_selector raises at line 207 when the price
\* value is infinite, after the title was located and before the currency is looked for
extract_selectors_try(d, title, price, currency) ==
    LET price_xpath == _find_price_selector(d, price)
    IN  IF price.kind # "none" /\ int_raises(_extract_numeric_value(price))
        THEN [raised |-> TRUE,
              value  |-> [title_xpath |-> None, price_xpath |-> None, currency_xpath |-> None]]
        ELSE [raised |-> FALSE,
              value  |-> [title_xpath    |-> _find_title_selector(d, title),
                          price_xpath    |-> price_xpath,
                          currency_xpath |-> _find_currency_selector(d, currency, price_xpath)]]

\* the body without the except clause of lines 557-564
extract_selectors_no_except(d, title, price, currency) == extract_selectors_try(d, title, price, currency)

\* the call as its caller sees it: whether it raised, and the SelectorSet it returned
extract_selectors_call(d, title, price, currency) ==
    IF extract_selectors_try(d, title, price, currency).raised
    THEN [raised |-> FALSE,
          value  |-> [title_xpath |-> None, price_xpath |-> None, currency_xpath |-> None]]
    ELSE extract_selectors_try(d, title, price, currency)

extract_selectors(d, title, price, currency) == extract_selectors_call(d, title, price, currency).value

----------------------------------------------------------------------------
(* Value Extractor *)

\* 0.01 and 1000000, the accepted price range
PriceLow == 10

PriceHigh == 1000000000

InRange(v) == PriceLow <= v /\ v <= PriceHigh

\* float(price_str.replace(',', '.')) of a pattern's first match, when it lies in the range
Accepted(m) ==
    LET f == IF m = None THEN None ELSE ParseFloat(ReplaceChar(m[1], ",", "."))
    IN  IF f # None /\ InRange(f[1]) THEN f ELSE None

\* lines 385-411: the patterns in their order, the first match of each
PatternPrice(price_text) ==
    OrElse(Accepted(FirstGlyphNumber(price_text)),
           OrElse(Accepted(FirstDecimal(price_text, ".")), Accepted(FirstDecimal(price_text, ","))))

\* lines 414-424: the first digit run in the range
FallbackPrice(price_text) ==
    LET ok == SelectSeq(AllNumbers(price_text), LAMBDA t : Accepted(Some(t)) # None)
    IN  IF ok = <<>> THEN None ELSE Accepted(Some(ok[1]))

\* the body of each per-field try: the value, or that the body raised
ExtractTitle(d, title_xpath) ==
    IF title_xpath = None THEN [raised |-> FALSE, value |-> None]
    ELSE LET title_elem == xpath(d, title_xpath[1])
             title_text == DescTextsAll(d, title_elem.nodes)
         IN  IF title_elem.raised THEN [raised |-> TRUE, value |-> None]
             ELSE IF title_elem.nodes = <<>> THEN [raised |-> FALSE, value |-> None]
             ELSE IF title_text # <<>>
                  THEN [raised |-> FALSE, value |-> Some(_normalize_text(join(<<" ">>, title_text)))]
                  ELSE [raised |-> FALSE, value |-> Some(_normalize_text(GetFirst(d, title_elem.nodes)))]

ExtractPrice(d, price_xpath) ==
    IF price_xpath = None THEN [raised |-> FALSE, value |-> None]
    ELSE LET price_elem == xpath(d, price_xpath[1])
             price_text == _normalize_text(GetFirst(d, price_elem.nodes))
         IN  IF price_elem.raised THEN [raised |-> TRUE, value |-> None]
             ELSE IF price_elem.nodes = <<>> THEN [raised |-> FALSE, value |-> None]
             ELSE [raised |-> FALSE, value |-> OrElse(PatternPrice(price_text), FallbackPrice(price_text))]

ExtractCurrency(d, currency_xpath) ==
    IF currency_xpath = None THEN [raised |-> FALSE, value |-> None]
    ELSE LET currency_elem == xpath(d, currency_xpath[1])
             currency_text == _normalize_text(GetFirst(d, currency_elem.nodes))
         IN  IF currency_elem.raised THEN [raised |-> TRUE, value |-> None]
             ELSE IF currency_elem.nodes = <<>> THEN [raised |-> FALSE, value |-> None]
             ELSE [raised |-> FALSE, value |-> OrElse(CurrencyToken(currency_text), Some(strip(currency_text)))]

\* a field body that raised leaves the field None
Caught(r) == IF r.raised THEN None ELSE r.value

extract_values_one_try(d, sel) ==
    LET t == ExtractTitle(d, sel.title_xpath)
        p == ExtractPrice(d, sel.price_xpath)
        c == ExtractCurrency(d, sel.currency_xpath)
    IN  [title    |-> Caught(t),
         price    |-> IF t.raised THEN None ELSE Caught(p),
         currency |-> IF t.raised \/ p.raised THEN None ELSE Caught(c)]

extract_values_with_selectors(d, sel) ==
    [title    |-> Caught(ExtractTitle(d, sel.title_xpath)),
     price    |-> Caught(ExtractPrice(d, sel.price_xpath)),
     currency |-> Caught(ExtractCurrency(d, sel.currency_xpath))]

----------------------------------------------------------------------------
(* Consistency Validator *)

Abs(x) == IF x < 0 THEN -x ELSE x

Min(a, b) == IF a < b THEN a ELSE b

Max(a, b) == IF a < b THEN b ELSE a

\* The pairs <<a, b>> of numbers of the model with b = a + 0.01 whose difference in
\* IEEE-754 double arithmetic falls below the double 0.01 (19.99 - 19.98 is
\* 0.00999999999999801; 20.0 - 19.99 is 0.010000000000001563).
RoundsBelowCent == {<<19980, 19990>>, <<45000, 45010>>}

\* abs(float(a) - float(b)) < 0.01
DiffBelowCent(a, b) ==
    \/ Abs(a - b) < 10
    \/ Abs(a - b) = 10 /\ <<Min(a, b), Max(a, b)>> \in RoundsBelowCent

\* a text that is present and not empty
Truthy(o) == o # None /\ o[1] # <<>>

agentql_normalized(agentql_values) ==
    [title    |-> IF agentql_values.title # <<>> THEN Some(_normalize_text(agentql_values.title)) ELSE None,
     price    |-> IF agentql_values.price.kind # "none"
                  THEN Some(_extract_numeric_value(agentql_values.price)) ELSE None,
     currency |-> IF agentql_values.currency # <<>> THEN Some(strip(agentql_values.currency)) ELSE None]

xpath_normalized(xpath_values) ==
    [title    |-> xpath_values.title,
     price    |-> IF xpath_values.price # None /\ xpath_values.price[1] # 0
                  THEN Some(_extract_numeric_value(NumPrice(xpath_values.price[1]))) ELSE None,
     currency |-> IF Truthy(xpath_values.currency) THEN Some(strip(xpath_values.currency[1])) ELSE None]

TitleMatch(a, x) ==
    /\ Truthy(a) /\ Truthy(x)
    /\ \/ lower(a[1]) = lower(x[1])
       \/ Contains(lower(x[1]), lower(a[1]))
       \/ Contains(lower(a[1]), lower(x[1]))

PriceMatch(a, x) == a # None /\ x # None /\ DiffBelowCent(a[1], x[1])

currency_match_unguarded(a, x) ==
    (IF a = None THEN <<>> ELSE upper(a[1])) = (IF x = None THEN <<>> ELSE upper(x[1]))

CurrencyMatch(a, x) == Truthy(a) /\ Truthy(x) /\ upper(a[1]) = upper(x[1])

all_any(matches) == matches.title \/ matches.price \/ matches.currency

\* all(matches.values())
all(matches) == matches.title /\ matches.price /\ matches.currency

compare_selectors_with_agentql(d, sel, agentql_values) ==
    LET xpath_values == extract_values_with_selectors(d, sel)
        a == agentql_normalized(agentql_values)
        x == xpath_normalized(xpath_values)
        matches == [title    |-> TitleMatch(a.title, x.title),
                    price    |-> PriceMatch(a.price, x.price),
                    currency |-> CurrencyMatch(a.currency, x.currency)]
    IN  [xpath_values   |-> xpath_values,
         agentql_values |-> agentql_values,
         matches        |-> matches,
         all_match      |-> all(matches)]

----------------------------------------------------------------------------
(* wait_for_dom_stability (src/utils/browser.py): the page is polled until *)
(* its content stayed the same for the quiet period, or the maximum wait   *)
(* is reached.  Times are in tenths of a second.                           *)

step_interval == 5

\* time.sleep(0.2) after a PlaywrightError
retry_interval == 2

\* the defaults of quiet_period_seconds and max_wait_seconds
quiet_period_default == 40

max_wait_default == 250

\* what page.content() gives: a snapshot of the page, or "error" for a raised PlaywrightError
Snapshots == {"a", "b"}

NoWait ==
    [pc |-> "idle", quiet_period_seconds |-> 0, max_wait_seconds |-> 0, last_html_content |-> "None",
     stable_duration |-> 0, total_wait_time |-> 0, polled |-> "None", equal_polls |-> 0, html |-> "None"]

\* lines 72-75: the locals at the start of the loop
wait_start(quiet, max) ==
    [NoWait EXCEPT !.pc = "loop", !.quiet_period_seconds = quiet, !.max_wait_seconds = max]

\* one iteration in which an error of page.content() counts as an unchanged page
wait_poll_error_is_stable(w, got) ==
    LET p == [w EXCEPT !.polled = got, !.equal_polls = IF got = w.last_html_content THEN @ + 1 ELSE @]
    IN  IF got = "error" \/ (w.last_html_content # "None" /\ got = w.last_html_content)
        THEN IF w.stable_duration + step_interval >= w.quiet_period_seconds
             THEN [p EXCEPT !.stable_duration = @ + step_interval, !.pc = "stable"]
             ELSE [p EXCEPT !.stable_duration = @ + step_interval, !.total_wait_time = @ + step_interval]
        ELSE [p EXCEPT !.stable_duration = 0, !.last_html_content = got, !.equal_polls = 0,
                       !.total_wait_time = @ + step_interval]

\* lines 82-108: one iteration of the loop, in which page.content() gives got.  equal_polls
\* counts the successful polls since the snapshot was last replaced (it is no local of the code).
wait_poll(w, got) ==
    LET p == [w EXCEPT !.polled = got]
    IN  IF got = "error"
        THEN [p EXCEPT !.total_wait_time = @ + retry_interval]
        ELSE IF w.last_html_content = "None"
        THEN [p EXCEPT !.last_html_content = got, !.total_wait_time = @ + step_interval]
        ELSE IF got = w.last_html_content
        THEN IF w.stable_duration + step_interval >= w.quiet_period_seconds
             THEN [p EXCEPT !.stable_duration = @ + step_interval, !.equal_polls = @ + 1, !.pc = "stable"]
             ELSE [p EXCEPT !.stable_duration = @ + step_interval, !.equal_polls = @ + 1,
                            !.total_wait_time = @ + step_interval]
        ELSE [p EXCEPT !.stable_duration = 0, !.last_html_content = got, !.equal_polls = 0,
                       !.total_wait_time = @ + step_interval]

\* lines 114-121: the read after the grace period, outside any try
wait_return(w, got) ==
    IF got = "error" THEN [w EXCEPT !.polled = got, !.pc = "raised"]
    ELSE [w EXCEPT !.polled = got, !.pc = "returned", !.html = got]

----------------------------------------------------------------------------
(* The browser session of validate_product_page, scrape_product_data and   *)
(* analyze_and_extract_product_data (src/services.py), with                *)
(* setup_browser_with_proxy_and_stealth (src/utils/browser.py) inlined.    *)

Functions == {"validate_product_page", "scrape_product_data", "analyze_and_extract_product_data"}

\* the calls of the try block in their order; those from "launch" to "route" are made inside
\* setup_browser_with_proxy_and_stealth
Steps(fn) ==
    <<"start", "launch", "new_context", "new_page", "stealth_sync", "route", "goto", "wait_for_dom_stability">>
        \o (IF fn = "analyze_and_extract_product_data" THEN <<"screenshot">> ELSE <<>>)
        \o <<"query_agentql_data">>

NoSession ==
    [fn |-> "None", pc |-> "idle", step |-> 0, playwright_instance |-> FALSE, browser |-> FALSE,
     started |-> FALSE, stopped |-> FALSE, launched |-> FALSE, closed |-> FALSE, raised |-> "None"]

\* playwright_instance = None; browser = None; try:
session_start(fn) == [NoSession EXCEPT !.fn = fn, !.pc = "try", !.step = 1]

\* the effect of a call of the try block that returned
step_done(ss, name) ==
    IF name = "start" THEN [ss EXCEPT !.playwright_instance = TRUE, !.started = TRUE]
    ELSE IF name = "launch" THEN [ss EXCEPT !.launched = TRUE]
    ELSE IF name = "route" THEN [ss EXCEPT !.browser = TRUE]
    ELSE ss

\* one call of the try block: it returns, or it raises and control goes through the except
\* clause (which logs and raises again) to the finally clause
try_step(ss, ok) ==
    LET name == Steps(ss.fn)[ss.step]
    IN  IF ~ok THEN [ss EXCEPT !.pc = "finally", !.raised = name]
        ELSE [step_done(ss, name) EXCEPT !.step = @ + 1,
                                         !.pc = IF ss.step = Len(Steps(ss.fn)) THEN "finally" ELSE "try"]

\* if browser: browser.close()
finally_close(ss, ok) ==
    IF ~ss.browser THEN [ss EXCEPT !.pc = "stop"]
    ELSE IF ok THEN [ss EXCEPT !.closed = TRUE, !.pc = "stop"]
    ELSE [ss EXCEPT !.raised = "browser.close", !.pc = "exited"]

\* if playwright_instance: playwright_instance.stop()
finally_stop(ss) ==
    IF ss.playwright_instance THEN [ss EXCEPT !.stopped = TRUE, !.pc = "exited"]
    ELSE [ss EXCEPT !.pc = "exited"]

----------------------------------------------------------------------------
(* The HTTP endpoints (src/main.py) and the services they call             *)
(* (src/services.py).  An error is its message, and the cause it was raised *)
(* for.  A code and a status are the keys of ERROR_CODES and HTTP_STATUS.   *)

Raised(cause, message) == [raised |-> TRUE, cause |-> cause, message |-> message, value |-> <<>>]

Returned(value) == [raised |-> FALSE, cause |-> "None", message |-> <<>>, value |-> value]

\* sanitized_url.startswith(prefix)
startswith(s, prefix) == Len(s) >= Len(prefix) /\ SubSeq(s, 1, Len(prefix)) = prefix

validate_url(url) ==
    LET sanitized_url == strip(url)
    IN  IF ~(startswith(sanitized_url, <<"h","t","t","p",":","/","/">>) \/ startswith(sanitized_url, <<"h","t","t","p","s",":","/","/">>))
        THEN Raised("invalid_url",
                    <<"I","n","v","a","l","i","d"," ","U","R","L"," ","s","c","h","e","m","e","."," ","E","x","p","e","c","t","e","d"," ","h","t","t","p",":","/","/"," ","o","r"," ","h","t","t","p","s",":","/","/",","," ","b","u","t"," ","r","e","c","e","i","v","e","d",":"," ">>
                        \o sanitized_url
                        \o <<"."," ","P","l","e","a","s","e"," ","p","r","o","v","i","d","e"," ","t","h","e"," ","a","c","t","u","a","l"," ","p","r","o","d","u","c","t"," ","p","a","g","e"," ","U","R","L",","," ","n","o","t"," ","a"," ","c","h","r","o","m","e","-","e","x","t","e","n","s","i","o","n",":","/","/"," ","U","R","L",".">>)
        ELSE Returned(sanitized_url)

\* the answer of the AgentQL service: whether AGENTQL_API_KEY is set, the status code and the
\* text of the response, and the "data" of its JSON
query_agentql_data(answer) ==
    IF ~answer.key THEN Raised("agentql_key", <<"M","i","s","s","i","n","g"," ","A","G","E","N","T","Q","L","_","A","P","I","_","K","E","Y"," ","i","n"," ","e","n","v","i","r","o","n","m","e","n","t",".">>)
    ELSE IF answer.status_code # 200 THEN Raised("agentql_service", <<"A","g","e","n","t","Q","L"," ","e","r","r","o","r",":"," ">> \o answer.text)
    ELSE Returned(answer.data)

\* not html_content or not html_content.strip(): a blank page is None here
EmptyHtml == Raised("empty_html", <<"H","T","M","L"," ","c","o","n","t","e","n","t"," ","i","s"," ","r","e","q","u","i","r","e","d"," ","a","n","d"," ","c","a","n","n","o","t"," ","b","e"," ","e","m","p","t","y">>)

validate_product_page_from_html(html, answer) ==
    IF html = None THEN EmptyHtml
    ELSE LET agentql_data == query_agentql_data(answer)
         IN  IF agentql_data.raised THEN agentql_data
             ELSE Returned([isDetailPage |-> agentql_data.value.is_detail_page])

\* all(selectors.values())
all_selectors(sel) == \A f \in DOMAIN sel : sel[f] # None

\* xpath_values.get(field) or product_data.get(field), for a text and for the price
text_or(x, source) == IF Truthy(x) THEN x[1] ELSE source

price_or(x, source) == IF x # None /\ x[1] # 0 THEN NumPrice(x[1]) ELSE source

\* a plausible slip: a field the comparison reports as a mismatch gets the AgentQL value
scrape_result_trusts_comparison(xpath_values, product_data, sel, comparison) ==
    LET ok(f) == comparison = None \/ comparison[1].matches[f]
    IN  [title    |-> [value    |-> IF ok("title") THEN text_or(xpath_values.title, product_data.title)
                                    ELSE product_data.title,
                       selector |-> sel.title_xpath],
         price    |-> [value    |-> IF ok("price") THEN price_or(xpath_values.price, product_data.price)
                                    ELSE product_data.price,
                       selector |-> sel.price_xpath],
         currency |-> [value    |-> IF ok("currency")
                                    THEN text_or(xpath_values.currency, product_data.currency)
                                    ELSE product_data.currency,
                       selector |-> sel.currency_xpath]]

\* lines 87-100: the result dictionary
scrape_result(xpath_values, product_data, sel, comparison) ==
    [title    |-> [value    |-> text_or(xpath_values.title, product_data.title),
                   selector |-> sel.title_xpath],
     price    |-> [value    |-> price_or(xpath_values.price, product_data.price),
                   selector |-> sel.price_xpath],
     currency |-> [value    |-> text_or(xpath_values.currency, product_data.currency),
                   selector |-> sel.currency_xpath]]

\* the value of an expression, computed once: the member of a set of one element
Only(S) == CHOOSE x \in S : TRUE

\* lines 58-85: the selectors, the values read through them, and the comparison, which is
\* None when it is skipped
scrape_steps(d, product_data) ==
    Only({ Only({ [selectors    |-> sel,
                   xpath_values |-> xpath_values,
                   comparison   |-> IF all_selectors(sel)
                                    THEN Some(compare_selectors_with_agentql(d, sel, product_data))
                                    ELSE None]
                  : xpath_values \in {extract_values_with_selectors(d, sel)} })
           : sel \in {extract_selectors(d, product_data.title, product_data.price,
                                        product_data.currency)} })

scrape_product_data_from_html(html, answer) ==
    IF html = None THEN EmptyHtml
    ELSE LET scraped_data == query_agentql_data(answer)
         IN  IF scraped_data.raised THEN scraped_data
             ELSE Only({ Returned(scrape_result(steps.xpath_values, scraped_data.value.product,
                                                steps.selectors, steps.comparison))
                         : steps \in {scrape_steps(html[1], scraped_data.value.product)} })

\* the browser part of analyze_and_extract_product_data: it gives the page, or Playwright raises
\* with a message that ends with the url
analyze_and_extract_product_data(request_url, browsing, answer) ==
    LET url == validate_url(request_url)
    IN  IF url.raised THEN url
        ELSE IF browsing.raised THEN Raised(browsing.cause, browsing.message \o url.value)
        ELSE LET agentql_data == query_agentql_data(answer)
             IN  IF agentql_data.raised THEN agentql_data
                 ELSE Returned([validation  |-> [isDetailPage |-> agentql_data.value.is_detail_page],
                                productData |-> agentql_data.value.product])

\* no request was answered yet; cause is the cause of the error that was handled
NoResponse ==
    [success |-> FALSE, cause |-> "None", code |-> "None", status_code |-> "None", message |-> <<>>,
     data |-> <<>>]

create_success_response(data, message) ==
    [NoResponse EXCEPT !.success = TRUE, !.status_code = "OK", !.message = message, !.data = data]

create_error_response(code, message, status_code) ==
    [NoResponse EXCEPT !.code = code, !.status_code = status_code, !.message = message]

\* lines 68-79: the error code and the status that the message of the error selects
error_class(error_message) ==
    IF Contains(error_message, <<"I","n","v","a","l","i","d"," ","U","R","L">>) \/ Contains(error_message, <<"U","R","L">>)
    THEN <<"INVALID_URL", "BAD_REQUEST">>
    ELSE IF Contains(error_message, <<"A","G","E","N","T","Q","L">>) \/ Contains(error_message, <<"A","g","e","n","t","Q","L">>)
    THEN <<"AGENTQL_ERROR", "INTERNAL_SERVER_ERROR">>
    ELSE IF Contains(lower(error_message), <<"p","r","o","x","y">>)
    THEN <<"PROXY_ERROR", "SERVICE_UNAVAILABLE">>
    ELSE <<"SERVER_ERROR", "INTERNAL_SERVER_ERROR">>

handle_api_error(operation, error) ==
    [create_error_response(error_class(error.message)[1],
                           <<"F","a","i","l","e","d"," ","t","o"," ">> \o operation \o <<":"," ">> \o error.message,
                           error_class(error.message)[2])
        EXCEPT !.cause = error.cause]

\* try: return create_success_response(...) except Exception as e: return handle_api_error(...)
endpoint_response(operation, message, outcome) ==
    IF outcome.raised THEN handle_api_error(operation, outcome)
    ELSE create_success_response(outcome.value, message)

----------------------------------------------------------------------------
(* Pages and source values.  Each page is given as the tree that            *)
(* Selector(text=html) builds of the html quoted above it.                  *)

\* <h1>Wireless Mouse</h1><span class="price">$19.99</span>
DocMouse ==
    << Elem(<<"h","t","m","l">>, <<>>, <<>>, 0, <<>>, <<>>),
       Elem(<<"b","o","d","y">>, <<>>, <<>>, 1, <<>>, <<>>),
       Elem(<<"h","1">>, <<>>, <<>>, 2, <<"W","i","r","e","l","e","s","s"," ","M","o","u","s","e">>, <<>>),
       Elem(<<"s","p","a","n">>, <<"p","r","i","c","e">>, <<>>, 2, <<"$","1","9",".","9","9">>, <<>>) >>

\* <h2>Desk Lamp</h2><p class="price">Now $45.00 (was $60.00)</p>
DocLamp ==
    << Elem(<<"h","t","m","l">>, <<>>, <<>>, 0, <<>>, <<>>),
       Elem(<<"b","o","d","y">>, <<>>, <<>>, 1, <<>>, <<>>),
       Elem(<<"h","2">>, <<>>, <<>>, 2, <<"D","e","s","k"," ","L","a","m","p">>, <<>>),
       Elem(<<"p">>, <<"p","r","i","c","e">>, <<>>, 2, <<"N","o","w"," ","$","4","5",".","0","0"," ","(","w","a","s"," ","$","6","0",".","0","0",")">>, <<>>) >>

\* <h1>Desk Lamp</h1><div id="cost">was 60.00 <b>now</b> $45.00</div>
DocWasNow ==
    << Elem(<<"h","t","m","l">>, <<>>, <<>>, 0, <<>>, <<>>),
       Elem(<<"b","o","d","y">>, <<>>, <<>>, 1, <<>>, <<>>),
       Elem(<<"h","1">>, <<>>, <<>>, 2, <<"D","e","s","k"," ","L","a","m","p">>, <<>>),
       Elem(<<"d","i","v">>, <<>>, <<"c","o","s","t">>, 2, <<"w","a","s"," ","6","0",".","0","0"," ">>, <<>>),
       Elem(<<"b">>, <<>>, <<>>, 4, <<"n","o","w">>, <<" ","$","4","5",".","0","0">>) >>

\* <p>Prices in €</p><h1>Tea Pot</h1><div><span>19.99</span><em>€</em></div>
DocEuro ==
    << Elem(<<"h","t","m","l">>, <<>>, <<>>, 0, <<>>, <<>>),
       Elem(<<"b","o","d","y">>, <<>>, <<>>, 1, <<>>, <<>>),
       Elem(<<"p">>, <<>>, <<>>, 2, <<"P","r","i","c","e","s"," ","i","n"," ","EURO">>, <<>>),
       Elem(<<"h","1">>, <<>>, <<>>, 2, <<"T","e","a"," ","P","o","t">>, <<>>),
       Elem(<<"d","i","v">>, <<>>, <<>>, 2, <<>>, <<>>),
       Elem(<<"s","p","a","n">>, <<>>, <<>>, 5, <<"1","9",".","9","9">>, <<>>),
       Elem(<<"e","m">>, <<>>, <<>>, 5, <<"EURO">>, <<>>) >>

\* <h1>Tea Pot</h1><div><span class="amount">19.99</span><span class="currency">€</span></div>
DocEuroClass ==
    << Elem(<<"h","t","m","l">>, <<>>, <<>>, 0, <<>>, <<>>),
       Elem(<<"b","o","d","y">>, <<>>, <<>>, 1, <<>>, <<>>),
       Elem(<<"h","1">>, <<>>, <<>>, 2, <<"T","e","a"," ","P","o","t">>, <<>>),
       Elem(<<"d","i","v">>, <<>>, <<>>, 2, <<>>, <<>>),
       Elem(<<"s","p","a","n">>, <<"a","m","o","u","n","t">>, <<>>, 4, <<"1","9",".","9","9">>, <<>>),
       Elem(<<"s","p","a","n">>, <<"c","u","r","r","e","n","c","y">>, <<>>, 4, <<"EURO">>, <<>>) >>

TitleMouse == <<"W","i","r","e","l","e","s","s"," ","M","o","u","s","e">>

TitleLamp == <<"D","e","s","k"," ","L","a","m","p">>

TitlePot == <<"T","e","a"," ","P","o","t">>


Docs == {DocMouse, DocLamp, DocWasNow, DocEuro, DocEuroClass}

Titles == {TitleMouse, TitleLamp, TitlePot, <<>>}

Prices ==
    {NumPrice(19990), NumPrice(45000), NumPrice(0), NumPrice(Infinity), NoPrice,
     TextPrice(<<"$","1","9",".","9","9">>), TextPrice(<<"a","b","c">>), TextPrice(<<>>)}

Currencies == {<<"U","S","D">>, <<"$">>, <<"EURO">>, <<>>}

Sources == [title : Titles, price : Prices, currency : Currencies]

Fields == {"title_xpath", "price_xpath", "currency_xpath"}

\* a path that resolves to nothing in any page of the model
StalePath == XPath(<< [tag |-> <<"h","t","m","l">>, idx |-> 0], [tag |-> <<"b","o","d","y">>, idx |-> 0],
                      [tag |-> <<"t","a","b","l","e">>, idx |-> 0] >>)

\* what a stored path can have become: missing, unresolved, or no path expression
BadPaths == {None, Some(StalePath), Some(InvalidXPath)}

\* the numeral of the price element, before and after a change of the page
Repricings ==
    { << <<"1","9",".","9","9">>, <<"2","4",".","9","9">> >>,
      << <<"1","9",".","9","9">>, <<"1","9",".","9","8">> >>,
      << <<"1","9",".","9","9">>, <<"2","0",".","0","0">> >>,
      << <<"4","5",".","0","0">>, <<"4","5",".","0","1">> >>,
      << <<"4","5",".","0","0">>, <<"3","0",".","0","0">> >> }

\* text with the first occurrence of old replaced by new
ReplaceFirst(text, old, new) ==
    LET i == FindFirst(text, old)
    IN  IF i = 0 THEN text
        ELSE SubSeq(text, 1, i - 1) \o new \o SubSeq(text, i + Len(old), Len(text))

NoResult == [xpath_values   |-> [title |-> None, price |-> None, currency |-> None],
             agentql_values |-> [title |-> <<>>, price |-> NoPrice, currency |-> <<>>],
             matches        |-> [title |-> FALSE, price |-> FALSE, currency |-> FALSE],
             all_match      |-> FALSE]

NoSelectors == [title_xpath |-> None, price_xpath |-> None, currency_xpath |-> None]

----------------------------------------------------------------------------
(* The engine in use: selectors are synthesized on a page (or a stored set  *)
(* is supplied), validated against the source values, and validated again   *)
(* after the page's price element changed.                                  *)

Idle ==
    /\ num_in = <<>> /\ num_out = 0
    /\ node = 0 /\ path = None /\ resolved = <<>>
    /\ wait = NoWait /\ session = NoSession /\ response = NoResponse

\* source values from which a stored SelectorSet was synthesized earlier
StoredSources ==
    {[title |-> TitleMouse, price |-> NumPrice(19990), currency |-> <<"$">>],
     [title |-> TitleLamp, price |-> NumPrice(45000), currency |-> <<"$">>],
     [title |-> TitlePot, price |-> NumPrice(19990), currency |-> <<"EURO">>]}

Init ==
    /\ pc = "start"
    /\ doc \in Docs
    /\ src \in Sources
    /\ selectors = NoSelectors
    /\ result = NoResult
    /\ baseline = NoResult
    /\ change = <<0, 0>>
    /\ Idle

\* extract_selectors(html, title, price, currency)
Synthesize ==
    /\ pc = "start"
    /\ LET r == extract_selectors_call(doc, src.title, src.price, src.currency)
       IN  /\ selectors' = r.value
           /\ pc' = IF r.raised THEN "raised" ELSE "synthesized"
    /\ UNCHANGED <<response, wait, session, doc, src, result, baseline, change, num_in, num_out, node, path, resolved>>

\* one path of the synthesized SelectorSet has gone bad before it is used
SupplyBad ==
    /\ pc = "synthesized"
    /\ \E f \in Fields, bad \in BadPaths : selectors' = [selectors EXCEPT ![f] = bad]
    /\ pc' = "supplied"
    /\ UNCHANGED <<response, wait, session, doc, src, result, baseline, change, num_in, num_out, node, path, resolved>>

\* the caller holds a SelectorSet synthesized on this page from earlier source values
SupplyStored ==
    /\ pc = "start"
    /\ \E s \in StoredSources : selectors' = extract_selectors(doc, s.title, s.price, s.currency)
    /\ pc' = "supplied"
    /\ UNCHANGED <<response, wait, session, doc, src, result, baseline, change, num_in, num_out, node, path, resolved>>

\* compare_selectors_with_agentql(html, selectors, agentql_values)
Compare ==
    /\ pc \in {"synthesized", "supplied"}
    /\ result' = compare_selectors_with_agentql(doc, selectors, src)
    /\ pc' = "compared"
    /\ UNCHANGED <<response, wait, session, doc, src, selectors, baseline, change, num_in, num_out, node, path, resolved>>

\* the page is fetched again and differs only in the numeral of its price element
PriceChanges ==
    /\ pc = "compared"
    /\ selectors.price_xpath # None
    /\ LET r == xpath(doc, selectors.price_xpath[1])
       IN  /\ ~r.raised /\ r.nodes # <<>>
           /\ \E rp \in Repricings :
                 /\ Contains(doc[r.nodes[1]].text, rp[1])
                 /\ doc' = [doc EXCEPT ![r.nodes[1]].text = ReplaceFirst(@, rp[1], rp[2])]
                 /\ change' = <<ParseFloat(rp[1])[1], ParseFloat(rp[2])[1]>>
    /\ baseline' = result
    /\ pc' = "refetched"
    /\ UNCHANGED <<response, wait, session, src, selectors, result, num_in, num_out, node, path, resolved>>

\* compare_selectors_with_agentql on the changed page, with the same selectors and source values
Recompare ==
    /\ pc = "refetched"
    /\ result' = compare_selectors_with_agentql(doc, selectors, src)
    /\ pc' = "recompared"
    /\ UNCHANGED <<response, wait, session, doc, src, selectors, baseline, change, num_in, num_out, node, path, resolved>>

Next == Synthesize \/ SupplyBad \/ SupplyStored \/ Compare \/ PriceChanges \/ Recompare

Spec == Init /\ [][Next]_vars

----------------------------------------------------------------------------
(* Structural addressing on its own: a path is computed for an element of   *)
(* a document and resolved against the same document.                       *)

MaxNodes == 4

TreeTags == {<<"d","i","v">>, <<"s","p","a","n">>}

RECURSIVE SpineOf(_, _)
\* an element and its ancestors up to <body>: where the next element in document order can hang
SpineOf(d, n) == IF n <= 2 THEN {2} ELSE {n} \cup SpineOf(d, d[n].parent)

RECURSIVE TreesOf(_)
\* the documents with k elements below <body>
TreesOf(k) ==
    IF k = 0
    THEN {<< Elem(<<"h","t","m","l">>, <<>>, <<>>, 0, <<>>, <<>>), Elem(<<"b","o","d","y">>, <<>>, <<>>, 1, <<>>, <<>>) >>}
    ELSE {Append(t, Elem(tag, <<>>, <<>>, p, <<>>, <<>>)) :
             <<t, tag, p>> \in {x \in TreesOf(k - 1) \X TreeTags \X (1..(k + 1)) : x[3] \in SpineOf(x[1], Len(x[1]))}}

Trees == UNION {TreesOf(k) : k \in 0..MaxNodes}

IdlePipeline ==
    /\ src = [title |-> <<>>, price |-> NoPrice, currency |-> <<>>]
    /\ selectors = NoSelectors
    /\ result = NoResult
    /\ baseline = NoResult
    /\ change = <<0, 0>>
    /\ wait = NoWait /\ session = NoSession /\ response = NoResponse

InitPath ==
    /\ pc = "tree"
    /\ doc \in Trees
    /\ node \in 1..(MaxNodes + 2)
    /\ node <= Len(doc)
    /\ path = None
    /\ resolved = <<>>
    /\ num_in = <<>> /\ num_out = 0
    /\ IdlePipeline

\* _get_xpath_from_element(selector, element) for one element of the document
Address ==
    /\ pc = "tree"
    /\ path' = _get_xpath_from_element(doc, AsSelector(node))
    /\ pc' = "addressed"
    /\ UNCHANGED <<response, wait, session, doc, src, selectors, result, baseline, change, num_in, num_out, node, resolved>>

\* selector.xpath(path) on the same document
Resolve ==
    /\ pc = "addressed"
    /\ path # None
    /\ resolved' = xpath(doc, path[1]).nodes
    /\ pc' = "resolved"
    /\ UNCHANGED <<response, wait, session, doc, src, selectors, result, baseline, change, num_in, num_out, node, path>>

NextPath == Address \/ Resolve

SpecPath == InitPath /\ [][NextPath]_vars

----------------------------------------------------------------------------
(* The numeric coercer on its own, over short texts.                        *)

MaxNumLen == 4

NumAlphabet == {"1", "2", "0", ",", ".", "$"}

RECURSIVE TextsOf(_)
TextsOf(k) == IF k = 0 THEN {<<>>} ELSE {Append(t, c) : t \in TextsOf(k - 1), c \in NumAlphabet}

IsSep(c) == c = "." \/ c = ","

\* the digits that follow the last separator of a text
AfterLastSep(t) ==
    LET k == KeepNumeric(t)
    IN  SubSeq(k, LastPos(k, LAMBDA i : IsSep(k[i])) + 1, Len(k))

NumExamples ==
    {<<"$","1",",","2","3","4",".","5","0">>, <<"a","b","c">>, <<"1",".","2","3","4",",","5","6">>}

\* the texts of the model: their decimals fit the thousandths of the number representation
NumTexts == {t \in UNION {TextsOf(k) : k \in 0..MaxNumLen} : Len(AfterLastSep(t)) <= 3} \cup NumExamples

InitNum ==
    /\ pc = "text"
    /\ num_in \in NumTexts
    /\ num_out = 0
    /\ doc = <<>>
    /\ node = 0 /\ path = None /\ resolved = <<>>
    /\ IdlePipeline

\* _extract_numeric_value(price_str) for a text
Coerce ==
    /\ pc = "text"
    /\ num_out' = _extract_numeric_value(TextPrice(num_in))
    /\ pc' = "coerced"
    /\ UNCHANGED <<response, wait, session, doc, src, selectors, result, baseline, change, num_in, node, path, resolved>>

NextNum == Coerce

SpecNum == InitNum /\ [][NextNum]_vars

----------------------------------------------------------------------------
(* The field locators on their own: one locator is applied to a page and    *)
(* one source value; the currency locator is given a price path as well.    *)

\* <h2>Tea Pot</h2><h1>Tea Pot Deluxe</h1>
DocH2H1 ==
    << Elem(<<"h","t","m","l">>, <<>>, <<>>, 0, <<>>, <<>>),
       Elem(<<"b","o","d","y">>, <<>>, <<>>, 1, <<>>, <<>>),
       Elem(<<"h","2">>, <<>>, <<>>, 2, <<"T","e","a"," ","P","o","t">>, <<>>),
       Elem(<<"h","1">>, <<>>, <<>>, 2, <<"T","e","a"," ","P","o","t"," ","D","e","l","u","x","e">>, <<>>) >>

\* <div id="title">Tea Pot</div><p class="name">Tea Pot</p>
DocIdClass ==
    << Elem(<<"h","t","m","l">>, <<>>, <<>>, 0, <<>>, <<>>),
       Elem(<<"b","o","d","y">>, <<>>, <<>>, 1, <<>>, <<>>),
       Elem(<<"d","i","v">>, <<>>, <<"t","i","t","l","e">>, 2, <<"T","e","a"," ","P","o","t">>, <<>>),
       Elem(<<"p">>, <<"n","a","m","e">>, <<>>, 2, <<"T","e","a"," ","P","o","t">>, <<>>) >>

\* <p class="title">Tea Pot</p><h3>Tea Pot</h3>
DocClassHeading ==
    << Elem(<<"h","t","m","l">>, <<>>, <<>>, 0, <<>>, <<>>),
       Elem(<<"b","o","d","y">>, <<>>, <<>>, 1, <<>>, <<>>),
       Elem(<<"p">>, <<"t","i","t","l","e">>, <<>>, 2, <<"T","e","a"," ","P","o","t">>, <<>>),
       Elem(<<"h","3">>, <<>>, <<>>, 2, <<"T","e","a"," ","P","o","t">>, <<>>) >>

\* <em>Tea Pot</em><p class="name">Tea Pot</p>
DocPlainClass ==
    << Elem(<<"h","t","m","l">>, <<>>, <<>>, 0, <<>>, <<>>),
       Elem(<<"b","o","d","y">>, <<>>, <<>>, 1, <<>>, <<>>),
       Elem(<<"e","m">>, <<>>, <<>>, 2, <<"T","e","a"," ","P","o","t">>, <<>>),
       Elem(<<"p">>, <<"n","a","m","e">>, <<>>, 2, <<"T","e","a"," ","P","o","t">>, <<>>) >>

\* <em>Tea Pot 19.99</em><b>Tea Pot 19.99</b>
DocPlain ==
    << Elem(<<"h","t","m","l">>, <<>>, <<>>, 0, <<>>, <<>>),
       Elem(<<"b","o","d","y">>, <<>>, <<>>, 1, <<>>, <<>>),
       Elem(<<"e","m">>, <<>>, <<>>, 2, <<"T","e","a"," ","P","o","t"," ","1","9",".","9","9">>, <<>>),
       Elem(<<"b">>, <<>>, <<>>, 2, <<"T","e","a"," ","P","o","t"," ","1","9",".","9","9">>, <<>>) >>

\* <p>45.0 each</p><b>$45</b>
DocReprOrder ==
    << Elem(<<"h","t","m","l">>, <<>>, <<>>, 0, <<>>, <<>>),
       Elem(<<"b","o","d","y">>, <<>>, <<>>, 1, <<>>, <<>>),
       Elem(<<"p">>, <<>>, <<>>, 2, <<"4","5",".","0"," ","e","a","c","h">>, <<>>),
       Elem(<<"b">>, <<>>, <<>>, 2, <<"$","4","5">>, <<>>) >>

\* <p>19 left</p><b>20</b>
DocRounded ==
    << Elem(<<"h","t","m","l">>, <<>>, <<>>, 0, <<>>, <<>>),
       Elem(<<"b","o","d","y">>, <<>>, <<>>, 1, <<>>, <<>>),
       Elem(<<"p">>, <<>>, <<>>, 2, <<"1","9"," ","l","e","f","t">>, <<>>),
       Elem(<<"b">>, <<>>, <<>>, 2, <<"2","0">>, <<>>) >>

\* <p>19.99</p><b>EUR 19.99</b>
DocCurrencyPreferred ==
    << Elem(<<"h","t","m","l">>, <<>>, <<>>, 0, <<>>, <<>>),
       Elem(<<"b","o","d","y">>, <<>>, <<>>, 1, <<>>, <<>>),
       Elem(<<"p">>, <<>>, <<>>, 2, <<"1","9",".","9","9">>, <<>>),
       Elem(<<"b">>, <<>>, <<>>, 2, <<"E","U","R"," ","1","9",".","9","9">>, <<>>) >>

\* <p>€</p><div>€ <span>19.99</span></div>
DocParentEuro ==
    << Elem(<<"h","t","m","l">>, <<>>, <<>>, 0, <<>>, <<>>),
       Elem(<<"b","o","d","y">>, <<>>, <<>>, 1, <<>>, <<>>),
       Elem(<<"p">>, <<>>, <<>>, 2, <<"EURO">>, <<>>),
       Elem(<<"d","i","v">>, <<>>, <<>>, 2, <<"EURO"," ">>, <<>>),
       Elem(<<"s","p","a","n">>, <<>>, <<>>, 4, <<"1","9",".","9","9">>, <<>>) >>

TitleBlank == <<" ", " ", " ">>

TitleTabs == <<" ", "\t", "\n">>

LocDocs ==
    {DocMouse, DocWasNow, DocEuro, DocEuroClass, DocH2H1, DocIdClass, DocClassHeading, DocPlainClass,
     DocPlain, DocReprOrder, DocRounded, DocCurrencyPreferred, DocParentEuro}

LocTitles == {TitlePot, TitleMouse, TitleBlank, TitleTabs, <<>>}

LocPrices == {NumPrice(19990), NumPrice(45000), NumPrice(19999), NumPrice(0), NoPrice}

LocCurrencies == {<<"EURO">>, <<"e","u","r">>, <<"U","S","D">>, <<>>}

\* one source value at a time
LocSources ==
    [title : LocTitles, price : {NoPrice}, currency : {<<>>}]
        \cup [title : {<<>>}, price : LocPrices, currency : {<<>>}]
        \cup [title : {<<>>}, price : {NoPrice}, currency : LocCurrencies]

\* the price paths the currency locator can be given: none, a bad one, or the path of an element
PricePaths(d) == BadPaths \cup {Some(XPath(getpath(d, n))) : n \in 3..Len(d)}

InitLocate ==
    /\ pc = "page"
    /\ doc \in LocDocs
    /\ src \in LocSources
    /\ selectors = NoSelectors
    /\ result = NoResult
    /\ baseline = NoResult
    /\ change = <<0, 0>>
    /\ Idle

\* _find_title_selector(selector, title)
LocateTitle ==
    /\ pc = "page"
    /\ selectors' = [NoSelectors EXCEPT !.title_xpath = _find_title_selector(doc, src.title)]
    /\ pc' = "title"
    /\ UNCHANGED <<response, wait, session, doc, src, result, baseline, change, num_in, num_out, node, path, resolved>>

\* _find_price_selector(selector, price)
LocatePrice ==
    /\ pc = "page"
    /\ ~(src.price.kind # "none" /\ int_raises(_extract_numeric_value(src.price)))
    /\ selectors' = [NoSelectors EXCEPT !.price_xpath = _find_price_selector(doc, src.price)]
    /\ pc' = "price"
    /\ UNCHANGED <<response, wait, session, doc, src, result, baseline, change, num_in, num_out, node, path, resolved>>

\* _find_currency_selector(selector, currency, price_xpath)
LocateCurrency ==
    /\ pc = "page"
    /\ \E p \in PricePaths(doc) :
          selectors' = [NoSelectors EXCEPT !.price_xpath = p,
                                          !.currency_xpath = _find_currency_selector(doc, src.currency, p)]
    /\ pc' = "currency"
    /\ UNCHANGED <<response, wait, session, doc, src, result, baseline, change, num_in, num_out, node, path, resolved>>

NextLocate == LocateTitle \/ LocatePrice \/ LocateCurrency

SpecLocate == InitLocate /\ [][NextLocate]_vars

----------------------------------------------------------------------------
(* The value extractor on its own: the values are read from an element      *)
(* <b>text</b>, over short texts.                                           *)

MaxTextLen == 4

TextAlphabet == {"$", "0", "5", ".", ",", " "}

RECURSIVE ShortTexts(_)
ShortTexts(k) == IF k = 0 THEN {<<>>} ELSE {Append(t, c) : t \in ShortTexts(k - 1), c \in TextAlphabet}

TextExamples ==
    {<<"N","o","w"," ","$","4","5",".","0","0"," ","(","w","a","s"," ","$","6","0",".","0","0",")">>,
     <<"1","0","0","0","0","0","0">>, <<"1","0","0","0","0","0","1">>, <<"0",".","0","1">>, <<"0",".","0","0","9">>,
     <<"1","9",",","9","9"," ","e","u","r"," ","(","EURO",")">>, <<"k","r"," ","2","5","0">>,
     <<"1","9",".","9","9"," ","U","s","d"," ","(","$",")">>, <<"$"," ","U","S","D">>}

ElementTexts == UNION {ShortTexts(k) : k \in 0..MaxTextLen} \cup TextExamples

\* <b>text</b>
PageOf(text) ==
    << Elem(<<"h","t","m","l">>, <<>>, <<>>, 0, <<>>, <<>>),
       Elem(<<"b","o","d","y">>, <<>>, <<>>, 1, <<>>, <<>>),
       Elem(<<"b">>, <<>>, <<>>, 2, text, <<>>) >>

InitText ==
    /\ pc = "element"
    /\ doc \in {PageOf(t) : t \in ElementTexts}
    /\ src = [title |-> <<>>, price |-> NoPrice, currency |-> <<>>]
    /\ selectors = [f \in Fields |-> Some(XPath(getpath(doc, 3)))]
    /\ result = NoResult
    /\ baseline = NoResult
    /\ change = <<0, 0>>
    /\ Idle

\* extract_values_with_selectors(html, selectors)
ExtractValues ==
    /\ pc = "element"
    /\ result' = [NoResult EXCEPT !.xpath_values = extract_values_with_selectors(doc, selectors)]
    /\ pc' = "extracted"
    /\ UNCHANGED <<response, wait, session, doc, src, selectors, baseline, change, num_in, num_out, node, path, resolved>>

\* the source currencies the extracted values are compared with
TextCurrencies == {<<>>, <<"$">>, <<" ","u","s","d"," ">>, <<"U","S","D">>, <<" "," ">>}

\* compare_selectors_with_agentql(html, selectors, agentql_values) with a source currency
CompareValues ==
    /\ pc = "element"
    /\ \E c \in TextCurrencies :
          /\ src' = [src EXCEPT !.currency = c]
          /\ result' = compare_selectors_with_agentql(doc, selectors, src')
    /\ pc' = "compared"
    /\ UNCHANGED <<response, wait, session, doc, selectors, baseline, change, num_in, num_out, node, path, resolved>>

NextText == ExtractValues \/ CompareValues

SpecText == InitText /\ [][NextText]_vars

----------------------------------------------------------------------------
(* wait_for_dom_stability on its own, for any sequence of results of        *)
(* page.content().                                                          *)

\* the engine is not in use
IdleEngine ==
    /\ pc = "service" /\ doc = <<>>
    /\ src = [title |-> <<>>, price |-> NoPrice, currency |-> <<>>]
    /\ selectors = NoSelectors /\ result = NoResult /\ baseline = NoResult /\ change = <<0, 0>>
    /\ num_in = <<>> /\ num_out = 0 /\ node = 0 /\ path = None /\ resolved = <<>>

engine == <<pc, doc, src, selectors, result, baseline, change, num_in, num_out, node, path, resolved>>

\* the arguments of a call: the defaults, and shorter periods
WaitArgs == {<<quiet_period_default, max_wait_default>>, <<10, 30>>, <<7, 12>>, <<0, 10>>}

InitWait ==
    /\ IdleEngine
    /\ wait \in {wait_start(a[1], a[2]) : a \in WaitArgs}
    /\ session = NoSession
    /\ response = NoResponse

\* one iteration of the while loop
Poll ==
    /\ wait.pc = "loop"
    /\ wait.total_wait_time < wait.max_wait_seconds
    /\ \E got \in Snapshots \cup {"error"} : wait' = wait_poll(wait, got)
    /\ UNCHANGED <<response, engine, session>>

\* the loop condition fails: the else clause of the while loop
MaxWaitReached ==
    /\ wait.pc = "loop"
    /\ wait.total_wait_time >= wait.max_wait_seconds
    /\ wait' = [wait EXCEPT !.pc = "timeout"]
    /\ UNCHANGED <<response, engine, session>>

\* the grace period and the last page.content()
ReadAfterGrace ==
    /\ wait.pc \in {"stable", "timeout"}
    /\ \E got \in Snapshots \cup {"error"} : wait' = wait_return(wait, got)
    /\ UNCHANGED <<response, engine, session>>

NextWait == Poll \/ MaxWaitReached \/ ReadAfterGrace

SpecWait == InitWait /\ [][NextWait]_vars

\* the function runs on: a call in progress takes its next step
SpecWaitFair == SpecWait /\ WF_vars(NextWait)

----------------------------------------------------------------------------
(* One call of a browser service, in which any call of the try block and   *)
(* browser.close() may raise.                                               *)

InitBrowse ==
    /\ IdleEngine
    /\ wait = NoWait
    /\ response = NoResponse
    /\ session \in {session_start(fn) : fn \in Functions}

TryStep ==
    /\ session.pc = "try"
    /\ \E ok \in BOOLEAN : session' = try_step(session, ok)
    /\ UNCHANGED <<response, engine, wait>>

FinallyClose ==
    /\ session.pc = "finally"
    /\ \E ok \in BOOLEAN : session' = finally_close(session, ok)
    /\ UNCHANGED <<response, engine, wait>>

FinallyStop ==
    /\ session.pc = "stop"
    /\ session' = finally_stop(session)
    /\ UNCHANGED <<response, engine, wait>>

NextBrowse == TryStep \/ FinallyClose \/ FinallyStop

SpecBrowse == InitBrowse /\ [][NextBrowse]_vars

----------------------------------------------------------------------------
(* One request to an endpoint of src/main.py.                              *)

InitApi ==
    /\ IdleEngine
    /\ wait = NoWait /\ session = NoSession
    /\ response = NoResponse

\* <h1>Tea Pot</h1><span class="price">1000001</span><em>USD</em>
DocOverRange ==
    << Elem(<<"h","t","m","l">>, <<>>, <<>>, 0, <<>>, <<>>),
       Elem(<<"b","o","d","y">>, <<>>, <<>>, 1, <<>>, <<>>),
       Elem(<<"h","1">>, <<>>, <<>>, 2, <<"T","e","a"," ","P","o","t">>, <<>>),
       Elem(<<"s","p","a","n">>, <<"p","r","i","c","e">>, <<>>, 2, <<"1","0","0","0","0","0","1">>, <<>>),
       Elem(<<"e","m">>, <<>>, <<>>, 2, <<"U","S","D">>, <<>>) >>

\* <h1>Tea Pot</h1><span class="price">$19.99</span><em>USD</em>
DocPotUsd ==
    << Elem(<<"h","t","m","l">>, <<>>, <<>>, 0, <<>>, <<>>),
       Elem(<<"b","o","d","y">>, <<>>, <<>>, 1, <<>>, <<>>),
       Elem(<<"h","1">>, <<>>, <<>>, 2, <<"T","e","a"," ","P","o","t">>, <<>>),
       Elem(<<"s","p","a","n">>, <<"p","r","i","c","e">>, <<>>, 2, <<"$","1","9",".","9","9">>, <<>>),
       Elem(<<"e","m">>, <<>>, <<>>, 2, <<"U","S","D">>, <<>>) >>

\* the pages of a request; None is a blank page
Htmls == {None} \cup {Some(d) : d \in Docs \cup {DocOverRange, DocPotUsd}}

\* the AgentQL values of a request: a price of 1000001 is above the range of the extractor
ApiSources ==
    [title    : {TitleMouse, TitlePot, <<>>},
     price    : {NumPrice(19990), NumPrice(45000), NumPrice(1000001000), NumPrice(Infinity), NoPrice,
                 TextPrice(<<"$","1","9",".","9","9">>)},
     currency : {<<"U","S","D">>, <<"$">>, <<>>}]

\* what the AgentQL service can answer with a status code that is not 200
AnswerTexts == {<<"r","a","t","e"," ","l","i","m","i","t"," ","e","x","c","e","e","d","e","d">>, <<"I","n","v","a","l","i","d"," ","U","R","L">>, <<"h","t","m","l"," ","h","a","s"," ","a"," ","b","a","d"," ","U","R","L">>, <<"u","p","s","t","r","e","a","m"," ","p","r","o","x","y"," ","t","i","m","e","d"," ","o","u","t">>, <<>>}

Answer(key, status_code, text, data) == [key |-> key, status_code |-> status_code, text |-> text, data |-> data]

NoData == [is_detail_page |-> FALSE, product |-> [title |-> <<>>, price |-> NoPrice, currency |-> <<>>]]

FailedAnswers == {Answer(FALSE, 200, <<>>, NoData)} \cup {Answer(TRUE, 500, t, NoData) : t \in AnswerTexts}

\* the urls of a request
Urls == {<<"h","t","t","p","s",":","/","/","a",".","i","o","/","p">>, <<" ","h","t","t","p",":","/","/","a",".","i","o","/","p"," ">>, <<"h","t","t","p","s",":","/","/","a",".","i","o","/","U","R","L">>, <<"h","t","t","p","s",":","/","/","a",".","i","o","/","A","g","e","n","t","Q","L">>,
         <<"c","h","r","o","m","e","-","e","x","t","e","n","s","i","o","n",":","/","/","x">>, <<"a",".","i","o","/","p","r","o","x","y">>}

\* what Playwright raises while the page is fetched through the proxy: the proxy refuses, the
\* tunnel fails, the navigation times out
Browsings ==
    {Returned(<<>>),
     Raised("proxy", <<"P","a","g","e",".","g","o","t","o",":"," ","n","e","t",":",":","E","R","R","_","P","R","O","X","Y","_","C","O","N","N","E","C","T","I","O","N","_","F","A","I","L","E","D"," ","a","t"," ">>),
     Raised("other", <<"P","a","g","e",".","g","o","t","o",":"," ","T","i","m","e","o","u","t"," ","6","0","0","0","0","m","s"," ","e","x","c","e","e","d","e","d","."," ","n","a","v","i","g","a","t","i","n","g"," ","t","o"," ">>)}

ValidateEndpoint ==
    /\ response = NoResponse
    /\ \E html \in {None, Some(DocMouse)}, answer \in FailedAnswers \cup {Answer(TRUE, 200, <<>>, [NoData EXCEPT !.is_detail_page = b]) : b \in BOOLEAN} :
          response' = endpoint_response(<<"v","a","l","i","d","a","t","e"," ","p","r","o","d","u","c","t"," ","p","a","g","e">>, <<"P","a","g","e"," ","v","a","l","i","d","a","t","i","o","n"," ","c","o","m","p","l","e","t","e","d"," ","s","u","c","c","e","s","s","f","u","l","l","y">>,
                                        validate_product_page_from_html(html, answer))
    /\ UNCHANGED <<engine, wait, session>>

\* the engine variables keep the page, the AgentQL values and the steps of the service
ScrapeEndpoint ==
    /\ response = NoResponse
    /\ \E html \in Htmls, answer \in FailedAnswers \cup {Answer(TRUE, 200, <<>>, [NoData EXCEPT !.product = p]) : p \in ApiSources} :
          \E outcome \in {scrape_product_data_from_html(html, answer)} :
              /\ response' = endpoint_response(<<"s","c","r","a","p","e"," ","p","r","o","d","u","c","t"," ","d","a","t","a">>, <<"P","r","o","d","u","c","t"," ","d","a","t","a"," ","s","c","r","a","p","e","d"," ","s","u","c","c","e","s","s","f","u","l","l","y">>, outcome)
              /\ IF outcome.raised
                 THEN UNCHANGED engine
                 ELSE \E steps \in {scrape_steps(html[1], answer.data.product)} :
                          /\ pc' = IF steps.comparison = None THEN "skipped" ELSE "compared"
                          /\ doc' = html[1]
                          /\ src' = answer.data.product
                          /\ selectors' = steps.selectors
                          /\ result' = IF steps.comparison = None
                                       THEN [NoResult EXCEPT !.xpath_values = steps.xpath_values]
                                       ELSE steps.comparison[1]
                          /\ UNCHANGED <<baseline, change, num_in, num_out, node, path, resolved>>
    /\ UNCHANGED <<wait, session>>

AnalyzeEndpoint ==
    /\ response = NoResponse
    /\ \E url \in Urls, browsing \in Browsings,
          answer \in FailedAnswers \cup {Answer(TRUE, 200, <<>>, [NoData EXCEPT !.product = p]) : p \in {[title |-> TitleMouse, price |-> NumPrice(19990), currency |-> <<"$">>]}} :
          response' = endpoint_response(<<"a","n","a","l","y","z","e"," ","p","r","o","d","u","c","t">>, <<"P","r","o","d","u","c","t"," ","a","n","a","l","y","s","i","s"," ","c","o","m","p","l","e","t","e","d"," ","s","u","c","c","e","s","s","f","u","l","l","y">>,
                                        analyze_and_extract_product_data(url, browsing, answer))
    /\ UNCHANGED <<engine, wait, session>>

NextApi == ValidateEndpoint \/ ScrapeEndpoint \/ AnalyzeEndpoint

SpecApi == InitApi /\ [][NextApi]_vars

----------------------------------------------------------------------------
(* Claims *)

Compared == pc \in {"compared", "recompared"}

\* the selectors in use are those extract_selectors gives for this page and these source values
Synthesized == selectors = extract_selectors(doc, src.title, src.price, src.currency)

\* the elements a stored path resolves to in the current page
Nodes(p) == IF p = None \/ ~p[1].valid THEN <<>> ELSE xpath(doc, p[1]).nodes

MouseSource == [title |-> TitleMouse, price |-> NumPrice(19990), currency |-> <<"U","S","D">>]

\* C1: on <h1>Wireless Mouse</h1><span class="price">$19.99</span> with title "Wireless Mouse",
\* price 19.99 and currency "USD", the synthesized title path resolves to the h1, the price path
\* to the span, the extracted price is 19.99, and the comparison reports all three fields
\* matching (all_match true).
C1_WirelessMouseAllMatch ==
    (pc = "compared" /\ doc = DocMouse /\ src = MouseSource /\ Synthesized)
        => /\ Nodes(selectors.title_xpath) = <<3>>
           /\ Nodes(selectors.price_xpath) = <<4>>
           /\ result.xpath_values.price = Some(19990)
           /\ result.matches = [title |-> TRUE, price |-> TRUE, currency |-> TRUE]
           /\ result.all_match

\* C2: when the comparison reported all three fields matching on a page, and the page then
\* differs only in the numeral of its price element, by at least 0.01, the comparison with the
\* same selectors and source values reports the price as not matching and all_match false,
\* and the title and currency flags as before.
C2_StalePriceDetected ==
    (pc = "recompared" /\ baseline.all_match /\ Abs(change[1] - change[2]) >= 10)
        => /\ ~result.matches.price
           /\ ~result.all_match
           /\ result.matches.title = baseline.matches.title
           /\ result.matches.currency = baseline.matches.currency

C4_AllMatchIsConjunction ==
    Compared =>
        (result.all_match <=> (result.matches.title /\ result.matches.price /\ result.matches.currency))

\* a comparison in which two fields match and the third does not
C4_Witness ==
    /\ pc = "compared"
    /\ result.matches.title /\ result.matches.price /\ ~result.matches.currency

\* a stored path that is missing, resolves to no element, or is no path expression
BadPath(p) == p = None \/ ~p[1].valid \/ Nodes(p) = <<>>

ValueOf == [title_xpath |-> "title", price_xpath |-> "price", currency_xpath |-> "currency"]

\* C5: a path that is missing, unresolved or invalid makes only its own field None; the other
\* two fields are extracted as if that path had been absent.
C5_FieldsIndependent ==
    Compared =>
        \A f \in Fields :
            BadPath(selectors[f]) =>
                /\ result.xpath_values[ValueOf[f]] = None
                /\ \A g \in Fields \ {f} :
                      result.xpath_values[ValueOf[g]] =
                          extract_values_with_selectors(doc, [selectors EXCEPT ![f] = None])[ValueOf[g]]

\* the title path is no path expression, and the price and currency are extracted all the same
C5_Witness ==
    /\ pc = "compared"
    /\ selectors.title_xpath = Some(InvalidXPath)
    /\ result.xpath_values.title = None
    /\ result.xpath_values.price # None
    /\ result.xpath_values.currency # None

\* the normalized text of the price element, when the price path resolves
PriceText == _normalize_text(GetFirst(doc, Nodes(selectors.price_xpath)))

\* C6: of several numbers in the price element's text the first match of the first matching
\* pattern is extracted: with "$45.00" and "60.00" in the text ("Now $45.00 (was $60.00)",
\* "was 60.00 now $45.00") the price is 45.00, not 60.00.
C6_FirstPatternFirstMatch ==
    (/\ Compared
     /\ Nodes(selectors.price_xpath) # <<>>
     /\ FindFirst(PriceText, <<"$","4","5",".","0","0">>) # 0
     /\ Contains(PriceText, <<"6","0",".","0","0">>)
     /\ \A i \in 1..(FindFirst(PriceText, <<"$","4","5",".","0","0">>) - 1) : PriceText[i] \notin Glyphs)
        => result.xpath_values.price = Some(45000)

\* the price element reads "Now $45.00 (was $60.00)"
C6_Witness ==
    /\ pc = "compared"
    /\ Contains(PriceText, <<"N","o","w"," ","$","4","5",".","0","0"," ","(","w","a","s"," ","$","6","0",".","0","0",")">>)
    /\ result.xpath_values.price = Some(45000)

\* the immediate siblings of the price element whose text holds a search term of the currency
SiblingsWithTerm ==
    LET n == Nodes(selectors.price_xpath)[1]
        terms == search_terms(upper(strip(src.currency)))
    IN  {k \in {PrevSibling(doc, n), NextSibling(doc, n)} \ {0} :
            TermHit(upper(_normalize_text(OuterHtml(doc, k))), terms)}

\* C7: when the price path resolves, the price element holds no search term of the currency and
\* an immediate sibling does, the currency path is the path of that sibling.
C7_SiblingPathReturned ==
    (/\ pc = "synthesized"
     /\ src.currency # <<>>
     /\ Nodes(selectors.price_xpath) # <<>>
     /\ ~TermHit(upper(PriceText), search_terms(upper(strip(src.currency))))
     /\ SiblingsWithTerm # {})
        => \E k \in SiblingsWithTerm : selectors.currency_xpath = Some(XPath(getpath(doc, k)))

SentinelPrice == src.price.kind # "none" /\ _extract_numeric_value(src.price) = 0

\* C9: a source price that coerces to 0.0 is no usable number: the price locator returns None
\* for it, and no comparison reports the price as matching, whatever the page and selectors.
C9_SentinelIsNoPrice ==
    SentinelPrice =>
        /\ pc = "synthesized" => selectors.price_xpath = None
        /\ Compared => ~result.matches.price

\* the text "abc" as the source price, compared through a stored price path that extracts a price
C9_Witness ==
    /\ pc = "compared"
    /\ src.price = TextPrice(<<"a","b","c">>)
    /\ result.xpath_values.price # None
    /\ ~result.matches.price

\* the digits of a text, without its separators
OnlyDigits(t) == SelectSeq(t, LAMBDA c : IsDigit(c))

\* the number that the claim gives a text: the digit groups before the last separator, joined,
\* as the integer part and the digits after it as the decimals; 0.0 when there is no digit
ExpectedNumber(t) ==
    LET k    == KeepNumeric(t)
        last == LastPos(k, LAMBDA i : IsSep(k[i]))
        ip   == OnlyDigits(SubSeq(k, 1, last - 1))
        fp   == SubSeq(k, last + 1, Len(k))
    IN  IF OnlyDigits(k) = <<>> THEN 0
        ELSE IF last = 0 THEN 1000 * IntOf(k)
        ELSE 1000 * IntOf(ip) + FracOf(fp)

\* C10: of a text only digits, commas and periods count; the last separator is the decimal
\* point and the digit groups before it are joined ("$1,234.50" is 1234.50); a text that does
\* not parse ("abc", "", ".") gives 0.0.
C10_LastSeparatorIsDecimalPoint ==
    pc = "coerced" =>
        /\ num_out = ExpectedNumber(num_in)
        /\ num_in = <<"$","1",",","2","3","4",".","5","0">> => num_out = 1234500
        /\ num_in \in {<<"a","b","c">>, <<>>, <<".">>} => num_out = 0

\* "$1,234.50" has been coerced
C10_Witness ==
    /\ pc = "coerced"
    /\ num_in = <<"$","1",",","2","3","4",".","5","0">>
    /\ num_out = 1234500

\* C11: extract_selectors never raises, whatever the page and the source values: the
\* SelectorSet it returns has exactly the keys title_xpath, price_xpath and currency_xpath,
\* each of them None or a path that resolves in the page, and when locating the price fails
\* (an infinite price value) the call still returns, with every path None.
C11_NeverRaises ==
    /\ pc # "raised"
    /\ pc = "synthesized" =>
          /\ DOMAIN selectors = Fields
          /\ \A f \in Fields : selectors[f] = None \/ (selectors[f][1].valid /\ Nodes(selectors[f]) # <<>>)
          /\ src.title = <<>> => selectors.title_xpath = None
          /\ src.currency = <<>> => selectors.currency_xpath = None
          /\ src.price = NumPrice(Infinity) => selectors = NoSelectors

\* the price locator failed on a page where the title and the currency can be located
C11_Witness ==
    /\ pc = "synthesized"
    /\ doc = DocMouse /\ src = [title |-> TitleMouse, price |-> NumPrice(Infinity), currency |-> <<"$">>]
    /\ _find_title_selector(doc, src.title) # None
    /\ selectors = NoSelectors

\* C12: for every page, the title locator returns None for a title that is empty or made only
\* of whitespace.
C12_BlankTitleNotLocated ==
    (pc = "title" /\ \A i \in 1..Len(src.title) : IsSpace(src.title[i])) => selectors.title_xpath = None

\* a whitespace-only title on a page with a heading, where the title of the page is located
C12_Witness ==
    /\ pc = "title"
    /\ src.title \in {TitleBlank, TitleTabs}
    /\ css(doc, <<"h","1">>) # <<>>
    /\ _find_title_selector(doc, TitlePot) # None
    /\ selectors.title_xpath = None

\* the least element of a set of elements: the first in document order
FirstOf(S) == CHOOSE k \in S : \A j \in S : k <= j

\* the title as the locator compares it, and the elements that match it in each tier
TitleSought == _normalize_text(lower(src.title))

HeadingMatches ==
    {k \in 1..Len(doc) :
        /\ doc[k].tag \in {<<"h","1">>, <<"h","2">>, <<"h","3">>, <<"h","4">>}
        /\ HeadingHit(doc, k, TitleSought, SignificantWords(TitleSought))}

AttrMatches ==
    {k \in 1..Len(doc) :
        /\ AttrHas(doc[k].class, TitleAttrWords) \/ AttrHas(doc[k].id, TitleAttrWords)
        /\ TitleTextHit(doc, k, TitleSought)}

TextMatches ==
    {k \in 1..Len(doc) : Contains(lower(FirstText(doc, k)), SubSeq(TitleSought, 1, Min(Len(TitleSought), 30)))}

PathOf(k) == Some(XPath(getpath(doc, k)))

\* C13: the title locator returns the first matching heading (h1-h4) in document order when a
\* heading matches, else the first class/id-tier match in document order, else the first
\* whole-document match in document order, else None.
C13_TitleTiersDocumentOrder ==
    (pc = "title" /\ SignificantWords(TitleSought) # <<>>) =>
        selectors.title_xpath =
            IF HeadingMatches # {} THEN PathOf(FirstOf(HeadingMatches))
            ELSE IF AttrMatches # {} THEN PathOf(FirstOf(AttrMatches))
            ELSE IF TextMatches # {} THEN PathOf(FirstOf(TextMatches))
            ELSE None

\* the source price is a usable number
PriceSought == _extract_numeric_value(src.price)

\* the three representations of the price in the order plain float, trimmed 2-decimal, integer
Representations == <<FloatStr(PriceSought), RStripChar(RStripChar(Format2f(PriceSought), "0"), "."), IntStr(PriceSought)>>

\* the class/id-tier elements whose text holds a representation of the price
PriceAttrMatches ==
    {k \in 1..Len(doc) :
        /\ AttrHas(doc[k].class, PriceAttrWords) \/ AttrHas(doc[k].id, PriceAttrWords)
        /\ \E i \in 1..3 : Contains(_normalize_text(OuterHtml(doc, k)), Representations[i])}

\* the elements whose own text holds the representation r, and those of them with a currency
RepMatches(r) == {k \in 1..Len(doc) : Contains(FirstText(doc, k), r)}

WithCurrency(S) == {k \in S : HasCurrencyMark(_normalize_text(OuterHtml(doc, k)))}

\* C14: when no class/id-tier element matches, the price locator takes the first of the
\* representations plain float, trimmed 2-decimal, integer that has a match in the whole
\* document, and returns among its matches the first whose text holds a currency glyph or
\* code, or the first match in document order when none does; when a class/id-tier element
\* matches, the whole-document tier is not reached.
C14_WholeDocumentPriceTier ==
    (pc = "price" /\ src.price.kind # "none" /\ PriceSought # 0) =>
        LET tried == {i \in 1..3 : RepMatches(Representations[i]) # {}}
            M     == RepMatches(Representations[FirstOf(tried)])
        IN  IF PriceAttrMatches # {}
            THEN \E k \in PriceAttrMatches : selectors.price_xpath = PathOf(k)
            ELSE IF tried = {} THEN selectors.price_xpath = None
            ELSE IF WithCurrency(M) # {} THEN selectors.price_xpath = PathOf(FirstOf(WithCurrency(M)))
            ELSE selectors.price_xpath = PathOf(FirstOf(M))

\* <p>19.99</p><b>EUR 19.99</b>: the second match is returned, for the currency code in its text
C14_Witness ==
    /\ pc = "price"
    /\ doc = DocCurrencyPreferred /\ src.price = NumPrice(19990)
    /\ PriceAttrMatches = {}
    /\ RepMatches(Representations[1]) = {3, 4}
    /\ selectors.price_xpath = PathOf(4)

\* the heading level of an element (1 to 4), 5 for any other element
LevelOf(k) ==
    IF doc[k].tag = <<"h","1">> THEN 1 ELSE IF doc[k].tag = <<"h","2">> THEN 2
    ELSE IF doc[k].tag = <<"h","3">> THEN 3 ELSE IF doc[k].tag = <<"h","4">> THEN 4 ELSE 5

\* the matching heading of the lowest level, the first in document order among those of that level
FirstHeadingByLevel ==
    CHOOSE k \in HeadingMatches :
        \A j \in HeadingMatches : LevelOf(k) < LevelOf(j) \/ (LevelOf(k) = LevelOf(j) /\ k <= j)

ClassMatches == {k \in AttrMatches : AttrHas(doc[k].class, TitleAttrWords)}

\* C13 as amended: the title locator returns a matching heading when there is one, else a
\* class/id-tier match, else the first whole-document match in document order, else None;
\* among matching headings every h1 comes before any h2, every h2 before any h3 and every h3
\* before any h4, and document order decides among headings of one level; among class/id-tier
\* matches a class-matched element comes before every element matched by its id only, and
\* document order decides within each of the two groups.
C13_TitleTiersTagOrder ==
    (pc = "title" /\ SignificantWords(TitleSought) # <<>>) =>
        selectors.title_xpath =
            IF HeadingMatches # {} THEN PathOf(FirstHeadingByLevel)
            ELSE IF ClassMatches # {} THEN PathOf(FirstOf(ClassMatches))
            ELSE IF AttrMatches # {} THEN PathOf(FirstOf(AttrMatches))
            ELSE IF TextMatches # {} THEN PathOf(FirstOf(TextMatches))
            ELSE None

\* <h2>Tea Pot</h2><h1>Tea Pot Deluxe</h1>: the h1 is returned, after the matching h2
C13_Witness ==
    /\ pc = "title"
    /\ doc = DocH2H1 /\ src.title = TitlePot
    /\ HeadingMatches = {3, 4}
    /\ selectors.title_xpath = PathOf(4)

\* the first matches of the three price patterns in the price element's text, in their order
PatternMatches == <<FirstGlyphNumber(PriceText), FirstDecimal(PriceText, "."), FirstDecimal(PriceText, ",")>>

\* the number a matched text stands for, with a comma read as the decimal point
NumberOf(t) == ParseFloat(ReplaceChar(t, ",", "."))[1]

\* the digit runs of the text that lie in the accepted range
RunsInRange == SelectSeq(AllNumbers(PriceText), LAMBDA t : PriceLow <= NumberOf(t) /\ NumberOf(t) <= PriceHigh)

\* C15: the extracted price is None or a number in [0.01, 1000000]; when a pattern matched, the
\* price is the first match of the first pattern whose first match lies in the range (None
\* when there is no such pattern) and the digit-run scan is not used; when no pattern matched,
\* the price is the first digit run in the range (None when there is none).
C15_PriceInRange ==
    pc = "extracted" =>
        LET price   == result.xpath_values.price
            matched == {i \in 1..3 : PatternMatches[i] # None}
            inrange == {i \in matched : PriceLow <= NumberOf(PatternMatches[i][1])
                                          /\ NumberOf(PatternMatches[i][1]) <= PriceHigh}
        IN  /\ price = None \/ (PriceLow <= price[1] /\ price[1] <= PriceHigh)
            /\ matched # {} =>
                  price = IF inrange = {} THEN None ELSE Some(NumberOf(PatternMatches[FirstOf(inrange)][1]))
            /\ matched = {} =>
                  price = IF RunsInRange = <<>> THEN None ELSE Some(NumberOf(RunsInRange[1]))

\* the normalized text of the currency element, when the currency path resolves
CurrencyText == _normalize_text(GetFirst(doc, Nodes(selectors.currency_xpath)))

\* the positions of a text where a currency glyph stands or a currency code starts, in any case
TokenStarts(t) ==
    {i \in 1..Len(t) : t[i] \in Glyphs \/ (i + 2 <= Len(t) /\ upper(SubSeq(t, i, i + 2)) \in Codes)}

\* C16: the extracted currency is the first glyph or code found in the text of the currency
\* element, as it is written there, or the whole trimmed text when there is none; the
\* currency flag is true exactly when the source currency is present and equals the extracted
\* currency after trimming and uppercasing, so a code never matches its glyph.
C16_CurrencyMatch ==
    (pc = "compared" /\ Nodes(selectors.currency_xpath) # <<>>) =>
        LET x == result.xpath_values.currency
            t == CurrencyText
            starts == TokenStarts(t)
            i == FirstOf(starts)
        IN  /\ x = IF starts = {} THEN Some(strip(t))
                    ELSE IF t[i] \in Glyphs THEN Some(<<t[i]>>)
                    ELSE Some(SubSeq(t, i, i + 2))
            /\ result.matches.currency <=>
                  (src.currency # <<>> /\ upper(strip(src.currency)) = upper(strip(x[1])))
            /\ (upper(strip(src.currency)) = <<"U","S","D">> /\ x = Some(<<"$">>)) => ~result.matches.currency
            /\ (src.currency = <<"$">> /\ upper(x[1]) = <<"U","S","D">>) => ~result.matches.currency

\* "19.99 Usd ($)" compared with the source currency " usd ": the first token is taken, and matches
C16_Witness ==
    /\ pc = "compared"
    /\ src.currency = <<" ","u","s","d"," ">>
    /\ Contains(CurrencyText, <<"U","s","d"," ","(","$",")">>)
    /\ result.xpath_values.currency = Some(<<"U","s","d">>)
    /\ result.matches.currency

\* the candidates near a price element in the order in which the currency locator checks them:
\* the element, its parent, its immediate preceding sibling, its immediate following sibling
Candidates(n) == SelectSeq(<<n, doc[n].parent, PrevSibling(doc, n), NextSibling(doc, n)>>, LAMBDA k : k # 0)

\* the candidates whose text holds a search term of the source currency
CandidateHits(n) ==
    SelectSeq(Candidates(n), LAMBDA k :
        TermHit(upper(_normalize_text(OuterHtml(doc, k))), search_terms(upper(strip(src.currency)))))

\* C17: when the price path resolves, the currency locator returns the path of the first of
\* the candidates price element, parent, preceding sibling, following sibling whose text holds
\* a search term; the class/id tier and the whole-document tier decide only when none does.
C17_NearbyCandidatesInOrder ==
    (pc = "currency" /\ src.currency # <<>> /\ Nodes(selectors.price_xpath) # <<>>) =>
        LET hits  == CandidateHits(Nodes(selectors.price_xpath)[1])
            terms == search_terms(upper(strip(src.currency)))
        IN  selectors.currency_xpath =
                IF hits # <<>> THEN PathOf(hits[1])
                ELSE OrElse(CurrencyTier2(doc, terms), CurrencyTier3(doc, terms))

\* C18: wait_for_dom_stability always terminates by returning: every iteration that stays in
\* the polling loop adds at least 0.2 s to total_wait_time, so the loop is left once
\* total_wait_time reaches max_wait_seconds, and the read after the grace period gives the
\* page content that the function returns, whatever page.content() did, navigation errors
\* included.
C18_TerminatesWithContent ==
    [][/\ (wait.pc = "loop" /\ wait'.pc = "loop" =>
               /\ wait'.total_wait_time >= wait.total_wait_time + retry_interval
               /\ wait.total_wait_time < wait.max_wait_seconds)
       /\ (wait.pc \in {"stable", "timeout"} =>
               wait'.pc = "returned" /\ wait'.html \in Snapshots)]_vars

\* the part of C18 about the loop alone: an iteration is entered only below max_wait_seconds,
\* adds at least 0.2 s, and total_wait_time never passes max_wait_seconds by a whole step
wait_loop_progress ==
    /\ [](wait.total_wait_time < wait.max_wait_seconds + step_interval)
    /\ [][wait.pc = "loop" /\ wait'.pc = "loop" =>
              wait'.total_wait_time >= wait.total_wait_time + retry_interval]_vars

\* under fairness the call ends, by a return or by the exception of the last read
wait_ends == <>(wait.pc \in {"returned", "raised"})

\* C19: the polling loop is left through the stable exit only when the content compared
\* equal to the snapshot on at least quiet_period_seconds / 0.5 consecutive successful polls,
\* the last of them included; a successful poll whose content differs from the snapshot sets
\* stable_duration to 0 and makes that content the snapshot; a poll that raises a navigation
\* error changes neither stable_duration nor the snapshot.
C19_StableExit ==
    /\ [](wait.pc = "stable" =>
              /\ wait.equal_polls * step_interval >= wait.quiet_period_seconds
              /\ wait.equal_polls >= 1
              /\ wait.polled = wait.last_html_content)
    /\ [][wait.pc = "loop" /\ wait'.pc \in {"loop", "stable"} =>
              /\ (wait'.polled = "error" =>
                      /\ wait'.stable_duration = wait.stable_duration
                      /\ wait'.last_html_content = wait.last_html_content
                      /\ wait'.pc = "loop")
              /\ (wait'.polled # "error" /\ wait'.polled # wait.last_html_content =>
                      /\ wait'.stable_duration = 0
                      /\ wait'.last_html_content = wait'.polled
                      /\ wait'.pc = "loop")]_vars

\* the default quiet period of 4 s is met by exactly 8 equal polls, in a call in which
\* a navigation error and further polls came in between
C19_Witness ==
    /\ wait.pc = "stable"
    /\ wait.quiet_period_seconds = quiet_period_default
    /\ wait.equal_polls = 8
    /\ wait.total_wait_time % step_interval # 0
    /\ wait.total_wait_time >= 60

\* C20: when a browser service has exited, by a return or by an exception of any step, the
\* browser that was launched has been closed and the Playwright instance that was started
\* has been stopped.
C20_ResourcesReleased ==
    session.pc = "exited" =>
        /\ (session.launched => session.closed)
        /\ (session.started => session.stopped)

\* what the finally clause does achieve: a browser the caller holds is closed unless
\* browser.close() itself raised, and the instance is stopped unless browser.close() raised
session_released_if_held ==
    session.pc = "exited" /\ session.raised # "browser.close" =>
        /\ (session.browser => session.closed)
        /\ (session.started => session.stopped)

\* the code and the status that the claim gives the cause of an error
ClassOfCause(cause) ==
    IF cause = "invalid_url" THEN <<"INVALID_URL", "BAD_REQUEST">>
    ELSE IF cause \in {"agentql_service", "agentql_key"} THEN <<"AGENTQL_ERROR", "INTERNAL_SERVER_ERROR">>
    ELSE IF cause = "proxy" THEN <<"PROXY_ERROR", "SERVICE_UNAVAILABLE">>
    ELSE <<"SERVER_ERROR", "INTERNAL_SERVER_ERROR">>

\* C21: the error response of an endpoint carries the code and the status of the cause of the
\* error: INVALID_URL with BAD_REQUEST for a url that validate_url rejected, AGENTQL_ERROR with
\* INTERNAL_SERVER_ERROR for a failure of the AgentQL service or a missing key, PROXY_ERROR with
\* SERVICE_UNAVAILABLE for a proxy failure, SERVER_ERROR with INTERNAL_SERVER_ERROR for anything
\* else, whatever else the message of the error contains.
C21_ErrorClassByCause ==
    response.cause # "None" => <<response.code, response.status_code>> = ClassOfCause(response.cause)

\* the causes whose message is fixed by the code are classified as the claim says
error_class_of_fixed_messages ==
    response.cause \in {"invalid_url", "agentql_key", "empty_html"} =>
        <<response.code, response.status_code>> = ClassOfCause(response.cause)

\* the fields of a scraped product
ProductFields == {"title", "price", "currency"}

\* the scrape endpoint answered with a product
Scraped == pc \in {"skipped", "compared"} /\ response.success

\* the value read through the selector of a field is present (truthy)
Present(f) ==
    IF f = "price" THEN result.xpath_values.price # None /\ result.xpath_values.price[1] # 0
    ELSE Truthy(result.xpath_values[f])

\* the value read through the selector of a field, which is not None
ReExtracted(f) ==
    IF f = "price" THEN NumPrice(result.xpath_values.price[1]) ELSE result.xpath_values[f][1]

SelectorOf(f) ==
    IF f = "title" THEN selectors.title_xpath
    ELSE IF f = "price" THEN selectors.price_xpath ELSE selectors.currency_xpath

\* the comparison ran exactly when the three selectors were found, the returned selectors are
\* the synthesized ones, and each returned value is the re-extracted value when that is
\* present, else the AgentQL value
ScrapeRule ==
    /\ pc = "compared" <=> \A f \in ProductFields : SelectorOf(f) # None
    /\ selectors = extract_selectors(doc, src.title, src.price, src.currency)
    /\ result.xpath_values = extract_values_with_selectors(doc, selectors)
    /\ \A f \in ProductFields :
          /\ response.data[f].selector = SelectorOf(f)
          /\ response.data[f].value = IF Present(f) THEN ReExtracted(f) ELSE src[f]

\* C22 as stated: the comparison runs only when the three selectors were found and leaves the
\* result alone; a returned value is the re-extracted value when present, else the AgentQL
\* value, with the synthesized selector; and for every field that the comparison reports as a
\* mismatch the returned value is the re-extracted value, not the AgentQL value.
C22_MismatchKeepsReExtracted ==
    Scraped =>
        /\ ScrapeRule
        /\ pc = "compared" =>
              \A f \in ProductFields :
                  ~result.matches[f] =>
                      result.xpath_values[f] # None /\ response.data[f].value = ReExtracted(f)

\* C22, amended: as above, and for every field that the comparison reports as a mismatch and
\* whose re-extracted value is present the returned value is the re-extracted value; a field
\* without a re-extracted value is reported as a mismatch and gets the AgentQL value.
C22_PresentMismatchKeepsReExtracted ==
    Scraped =>
        /\ ScrapeRule
        /\ pc = "compared" =>
              \A f \in ProductFields :
                  ~result.matches[f] =>
                      response.data[f].value = IF Present(f) THEN ReExtracted(f) ELSE src[f]

\* the comparison ran and reports a mismatch for a field whose re-extracted value differs from
\* the AgentQL value, and for another field whose selector read nothing
C22_Witness ==
    /\ Scraped /\ pc = "compared"
    /\ \E f \in ProductFields : ~result.matches[f] /\ Present(f) /\ ReExtracted(f) # src[f]

\* the comparison ran, the price selector read nothing and the AgentQL price is returned
scrape_absent_price_reached ==
    ~(Scraped /\ pc = "compared" /\ ~Present("price") /\ response.data.price.value = src.price
        /\ src.price # NoPrice)

====
